---- MODULE Spec2Model ----
(***************************************************************************)
(* A model of the SolarSim N-body core: Body, Vector3, PhysicsEngine,     *)
(* OctreePool and StateManager.                                           *)
(*                                                                         *)
(* Numbers.  The program computes in double.  The model computes in exact *)
(* rationals <<n, d>> (d > 0, lowest terms), so +, -, * and / are the     *)
(* real operations; the claims on conservation are claims about these.    *)
(* std::sqrt and std::pow have irrational results that a double holds     *)
(* rounded to 53 bits; the model holds them rounded to a multiple of      *)
(* Grid.                                                                   *)
(***************************************************************************)
EXTENDS Integers, Sequences, FiniteSets, TLC

(***************************************************************************)
(* Rationals                                                               *)
(***************************************************************************)
Abs(n) == IF n < 0 THEN -n ELSE n

RECURSIVE Gcd(_, _)
Gcd(a, b) == IF b = 0 THEN a ELSE Gcd(b, a % b)

RNorm(n, d) ==
    LET g == Gcd(Abs(n), Abs(d))
        s == IF d < 0 THEN -1 ELSE 1
    IN  IF n = 0 THEN <<0, 1>> ELSE <<s * (n \div g), s * (d \div g)>>

R(n) == <<n, 1>>
Zero == <<0, 1>>
One == <<1, 1>>
Half == <<1, 2>>

RNeg(a) == <<-a[1], a[2]>>
(* the sum over the least common denominator, the product and quotient    *)
(* with the common factors taken out first, to stay within the integers   *)
RAdd(a, b) ==
    LET g == Gcd(a[2], b[2])
    IN  RNorm(a[1] * (b[2] \div g) + b[1] * (a[2] \div g), (a[2] \div g) * b[2])
RSub(a, b) == RAdd(a, RNeg(b))
RMul(a, b) ==
    LET g1 == Gcd(Abs(a[1]), b[2])
        g2 == Gcd(Abs(b[1]), a[2])
    IN  IF a[1] = 0 \/ b[1] = 0 THEN <<0, 1>>
        ELSE <<(a[1] \div g1) * (b[1] \div g2), (a[2] \div g2) * (b[2] \div g1)>>
RInv(a) == IF a[1] < 0 THEN <<-a[2], -a[1]>> ELSE <<a[2], a[1]>>
RDiv(a, b) == RMul(a, RInv(b))
(* a <= b with no product formed (a cross product such as 1e7 * 1e4      *)
(* leaves the range of the integers): compares the integer parts, then    *)
(* the reciprocals of the fractional parts.                                *)
RECURSIVE RLe(_, _)
RLe(a, b) ==
    LET fa == a[1] \div a[2]
        fb == b[1] \div b[2]
        ra == a[1] % a[2]
        rb == b[1] % b[2]
    IN  IF fa # fb THEN fa < fb
        ELSE IF ra = 0 THEN TRUE
        ELSE IF rb = 0 THEN FALSE
        ELSE RLe(<<b[2], rb>>, <<a[2], ra>>)
RLt(a, b) == ~RLe(b, a)
RMin(a, b) == IF RLt(b, a) THEN b ELSE a
RMax(a, b) == IF RLt(a, b) THEN b ELSE a

(***************************************************************************)
(* Vector3 (Vector3.hpp)                                                   *)
(***************************************************************************)
Vector3(x, y, z) == [x |-> x, y |-> y, z |-> z]
VZero == Vector3(Zero, Zero, Zero)
VAdd(a, b) == Vector3(RAdd(a.x, b.x), RAdd(a.y, b.y), RAdd(a.z, b.z))
VSub(a, b) == Vector3(RSub(a.x, b.x), RSub(a.y, b.y), RSub(a.z, b.z))
VScale(a, s) == Vector3(RMul(a.x, s), RMul(a.y, s), RMul(a.z, s))
VDivS(a, s) == Vector3(RDiv(a.x, s), RDiv(a.y, s), RDiv(a.z, s))
lengthSquared(a) == RAdd(RAdd(RMul(a.x, a.x), RMul(a.y, a.y)), RMul(a.z, a.z))

(***************************************************************************)
(* Bounds of the model                                                     *)
(***************************************************************************)
MaxBodies == 3        \* bodies in an initial collection
MaxSteps == 2         \* engine calls in one behaviour
MaxDenominator == 64  \* ... and is a fraction with a denominator up to it
MaxRange == 8         \* an integrator is called while every component of a body's state is within it

(***************************************************************************)
(* The rounded library functions.  Grid is the spacing of their results.  *)
(***************************************************************************)
Grid == <<1, 4>>

(* x rounded up to a multiple of Grid *)
RoundUp(x) ==
    LET q == RDiv(x, Grid)
    IN  RMul(R(-((-q[1]) \div q[2])), Grid)

(* the largest integer whose square is at most x, from n on *)
RECURSIVE IntRoot(_, _)
IntRoot(x, n) == IF RLe(R((n + 1) * (n + 1)), x) THEN IntRoot(x, n + 1) ELSE n

(***************************************************************************)
(* Body (Body.hpp).  The trail and parentName are used by the renderer    *)
(* alone and are left out.  A name is a sequence of characters.           *)
(***************************************************************************)
Body(name, mass, radius, pos, vel) ==
    [name |-> name, mass |-> mass, radius |-> radius,
     position |-> pos, velocity |-> vel, acceleration |-> VZero,
     rotationAngle |-> Zero, rotationSpeed |-> Zero, axialTilt |-> Zero]

(* std::pow(x, 3) *)
Pow3(x) == RMul(x, RMul(x, x))

(* std::pow(x, 1.0/3.0) for x >= 0: the cube root, rounded down to a      *)
(* multiple of Grid.                                                       *)
RECURSIVE CbrtFrom(_, _)
CbrtFrom(x, k) ==
    IF RLe(Pow3(RMul(R(k + 1), Grid)), x) THEN CbrtFrom(x, k + 1)
    ELSE RMul(R(k), Grid)
Cbrt(x) == CbrtFrom(x, 0)

(* the test of PhysicsEngine.hpp:112-114 *)
Overlap(bi, bj) ==
    LET distSq == lengthSquared(VSub(bj.position, bi.position))
        radiusSum == RAdd(bi.radius, bj.radius)
    IN  RLt(distSq, RMul(radiusSum, radiusSum))

(* Merged with the velocity averaged without the masses *)
MergedUnweighted(b1, b2) ==
    [b1 EXCEPT !.name = b1.name \o <<"-">> \o b2.name,
               !.mass = RAdd(b1.mass, b2.mass),
               !.velocity = VScale(VAdd(b1.velocity, b2.velocity), Half)]

(* PhysicsEngine.hpp:115-126: b1 overwritten with the merged body *)
Merged(b1, b2) ==
    LET newMass == RAdd(b1.mass, b2.mass)
        newPos == VDivS(VAdd(VScale(b1.position, b1.mass),
                             VScale(b2.position, b2.mass)), newMass)
        newVel == VDivS(VAdd(VScale(b1.velocity, b1.mass),
                             VScale(b2.velocity, b2.mass)), newMass)
        newRadius == Cbrt(RAdd(Pow3(b1.radius), Pow3(b2.radius)))
    IN  [b1 EXCEPT !.name = b1.name \o <<"-">> \o b2.name,
                   !.mass = newMass,
                   !.radius = newRadius,
                   !.position = newPos,
                   !.velocity = newVel]

(* Erase taking every body from j on: erase(begin() + j, end()) *)
EraseToEnd(bs, j) == SubSeq(bs, 1, j - 1)

(* bodies.erase(bodies.begin() + j), 1-based *)
Erase(bs, j) == SubSeq(bs, 1, j - 1) \o SubSeq(bs, j + 1, Len(bs))

(* The two loops of handleCollisions, indices 1-based.  After a merge the *)
(* code erases slot j and decrements j, the loop increment restores it:   *)
(* the same j is looked at again.  merges counts the executions of the    *)
(* body of the if.                                                         *)
RECURSIVE CollideLoop(_, _, _, _)
CollideLoop(bs, i, j, merges) ==
    IF i > Len(bs) THEN [bodies |-> bs, merges |-> merges]
    ELSE IF j > Len(bs) THEN CollideLoop(bs, i + 1, i + 2, merges)
    ELSE IF Overlap(bs[i], bs[j])
         THEN CollideLoop(Erase([bs EXCEPT ![i] = Merged(bs[i], bs[j])], j),
                          i, j, merges + 1)
         ELSE CollideLoop(bs, i, j + 1, merges)

handleCollisions(bs) == CollideLoop(bs, 1, 2, 0)

(* One execution of the body of the inner loop, PhysicsEngine.hpp:112-130: *)
(* the indices, the collection it finds, the outcome of the test and the   *)
(* collection it leaves                                                     *)
CollideStep(bs, i, j) ==
    [i |-> i, j |-> j, bodies |-> bs, overlap |-> Overlap(bs[i], bs[j]),
     then |-> IF Overlap(bs[i], bs[j])
              THEN Erase([bs EXCEPT ![i] = Merged(bs[i], bs[j])], j)
              ELSE bs]

(* the loops with ++j after a merge too, as without the --j of line 129 *)
RECURSIVE CollideTraceSkipping(_, _, _)
CollideTraceSkipping(bs, i, j) ==
    IF i > Len(bs) THEN <<>>
    ELSE IF j > Len(bs) THEN CollideTraceSkipping(bs, i + 1, i + 2)
    ELSE <<CollideStep(bs, i, j)>>
         \o CollideTraceSkipping(CollideStep(bs, i, j).then, i, j + 1)

(* The executions of the inner loop body of one call, in order *)
RECURSIVE CollideTrace(_, _, _)
CollideTrace(bs, i, j) ==
    IF i > Len(bs) THEN <<>>
    ELSE IF j > Len(bs) THEN CollideTrace(bs, i + 1, i + 2)
    ELSE <<CollideStep(bs, i, j)>>
         \o CollideTrace(CollideStep(bs, i, j).then, i,
                         IF CollideStep(bs, i, j).overlap THEN j ELSE j + 1)

(***************************************************************************)
(* std::sqrt(x) for x >= 0: the square root, rounded up to a multiple of  *)
(* Grid (exact on the squares of such multiples, and never zero for       *)
(* x > 0).                                                                 *)
(***************************************************************************)
RECURSIVE SqrtFrom(_, _)
SqrtFrom(x, k) ==
    LET s == RMul(R(k), Grid)
    IN  IF RLe(x, RMul(s, s)) THEN s ELSE SqrtFrom(x, k + 1)
Sqrt(x) == SqrtFrom(x, IntRoot(x, 0) * Grid[2])

(* std::clamp(v, lo, hi) *)
Clamp(v, lo, hi) == IF RLt(v, lo) THEN lo ELSE IF RLt(hi, v) THEN hi ELSE v

(* The literal 1e18 of getAdaptiveTimestep is beyond the integers of the  *)
(* model; it is held by its square root 1e9, which is exact.  Every       *)
(* squared distance the model can hold is below it.                       *)
MinDistSqInit == [huge |-> TRUE, root |-> R(1000000000)]
DistSqLess(d2, m) == IF m.huge THEN TRUE ELSE RLt(d2, m.sq)
SqrtOfMin(m) == IF m.huge THEN m.root ELSE Sqrt(m.sq)

(* the two loops of getAdaptiveTimestep, PhysicsEngine.hpp:154-160 *)
RECURSIVE MinDistLoop(_, _, _, _)
MinDistLoop(bs, i, j, minDistSq) ==
    IF i > Len(bs) THEN minDistSq
    ELSE IF j > Len(bs) THEN MinDistLoop(bs, i + 1, i + 2, minDistSq)
    ELSE LET d2 == lengthSquared(VSub(bs[j].position, bs[i].position))
         IN  MinDistLoop(bs, i, j + 1,
                         IF DistSqLess(d2, minDistSq)
                         THEN [huge |-> FALSE, sq |-> d2]
                         ELSE minDistSq)

getAdaptiveTimestep(bs, baseDt) ==
    LET minDistSq == MinDistLoop(bs, 1, 2, MinDistSqInit)
    IN  Clamp(RMul(<<1, 100>>, SqrtOfMin(minDistSq)),
              RDiv(baseDt, R(100)), baseDt)

(***************************************************************************)
(* Constants.hpp                                                           *)
(***************************************************************************)
(* M_PI, a double, held here as the rational 22/7 *)
M_PI == <<22, 7>>
G == RMul(R(4), RMul(M_PI, M_PI))
SOFTENING_EPSILON == <<1, 1000000000>>

(* std::sqrt(r2 + eps) for r2 >= 0 and eps > 0, rounded up like Sqrt.  The *)
(* sum r2 + 1e-9 has a numerator beyond the integers of the model and is  *)
(* never formed: a multiple s of Grid is at least the root when s*s - r2  *)
(* is at least eps.                                                        *)
RECURSIVE SqrtSoftFrom(_, _, _)
SqrtSoftFrom(r2, eps, k) ==
    LET s == RMul(R(k), Grid)
        sq == RMul(s, s)
    IN  IF RLe(r2, sq) /\ RLe(eps, RSub(sq, r2)) THEN s
        ELSE SqrtSoftFrom(r2, eps, k + 1)
SqrtSoft(r2, eps) == SqrtSoftFrom(r2, eps, IntRoot(r2, 0) * Grid[2])

(* PhysicsEngine.hpp:75-78: the factor f of one pair from its separation. *)
(* The product of line 78 is held rounded up to a multiple of Grid.       *)
PairFactor(d) ==
    LET invDist == RInv(SqrtSoft(lengthSquared(d), SOFTENING_EPSILON))
        invDist3 == RMul(invDist, RMul(invDist, invDist))
    IN  RoundUp(RMul(G, invDist3))

(* Body::resetAcceleration *)
resetAcceleration(b) == [b EXCEPT !.acceleration = VZero]

(* The inner loop with both pair terms scaled by the mass of body j *)
RECURSIVE AccInnerOneMass(_, _, _, _)
AccInnerOneMass(bs, i, j, acc) ==
    IF j > Len(bs) THEN [bodies |-> bs, acc |-> acc]
    ELSE LET d == VSub(bs[j].position, bs[i].position)
             f == PairFactor(d)
             fv == VScale(d, f)
         IN  AccInnerOneMass([bs EXCEPT ![j].acceleration =
                                   VSub(bs[j].acceleration, VScale(fv, bs[j].mass))],
                             i, j + 1, VAdd(acc, VScale(fv, bs[j].mass)))

(* The inner loop of calculateAccelerations for body i, from j on: acc is *)
(* the local accumulator (axi, ayi, azi); each bj is written at once.     *)
RECURSIVE AccInner(_, _, _, _)
AccInner(bs, i, j, acc) ==
    IF j > Len(bs) THEN [bodies |-> bs, acc |-> acc]
    ELSE LET d == VSub(bs[j].position, bs[i].position)
             f == PairFactor(d)
             fv == VScale(d, f)
         IN  AccInner([bs EXCEPT ![j].acceleration =
                            VSub(bs[j].acceleration, VScale(fv, bs[i].mass))],
                      i, j + 1, VAdd(acc, VScale(fv, bs[j].mass)))

RECURSIVE AccOuter(_, _)
AccOuter(bs, i) ==
    IF i > Len(bs) THEN bs
    ELSE LET r == AccInner(bs, i, i + 1, VZero)
         IN  AccOuter([r.bodies EXCEPT ![i].acceleration =
                            VAdd(r.bodies[i].acceleration, r.acc)],
                      i + 1)

calculateAccelerations(bs) ==
    AccOuter([i \in 1..Len(bs) |-> resetAcceleration(bs[i])], 1)

(* std::fmod(x, m), m > 0: x less m times the quotient truncated to zero  *)
Fmod(x, m) ==
    LET q == RDiv(x, m)
        t == IF q[1] >= 0 THEN q[1] \div q[2] ELSE -((-q[1]) \div q[2])
    IN  RSub(x, RMul(m, R(t)))

(* x >= 0 rounded to the nearest integer, a tie to the even one *)
RoundHalfEven(x) ==
    LET f == x[1] \div x[2]
        twice == 2 * (x[1] % x[2])
    IN  IF twice < x[2] THEN f
        ELSE IF twice > x[2] THEN f + 1
        ELSE IF f % 2 = 0 THEN f ELSE f + 1

(***************************************************************************)
(* The rounding of a double.  A double holds a value rounded to the       *)
(* nearest number of 53 significant bits, a tie to the even one; the      *)
(* numbers of the model have 32 bits, and the rotation angle is held      *)
(* rounded in the same way to SignificandBits bits.  The results of       *)
(* std::fmod are exact.                                                    *)
(***************************************************************************)
SignificandBits == 12

Pow2(k) == IF k >= 0 THEN R(2 ^ k) ELSE <<1, 2 ^ (-k)>>

(* the e with 2^e <= x < 2^(e+1), for x > 0, searched from e *)
RECURSIVE ExponentFrom(_, _)
ExponentFrom(x, e) ==
    IF RLt(x, Pow2(e)) THEN ExponentFrom(x, e - 1)
    ELSE IF RLe(Pow2(e + 1), x) THEN ExponentFrom(x, e + 1)
    ELSE e

(* x > 0 rounded to a multiple of spacing *)
RoundToSpacing(x, spacing) == RMul(R(RoundHalfEven(RDiv(x, spacing))), spacing)

RoundPositive(x) ==
    RoundToSpacing(x, Pow2(ExponentFrom(x, 0) - SignificandBits + 1))

RoundToDouble(x) ==
    IF x[1] = 0 THEN Zero
    ELSE IF x[1] < 0 THEN RNeg(RoundPositive(RNeg(x)))
    ELSE RoundPositive(x)

(* Body.hpp:51: if (rotationAngle < 0.0) rotationAngle += 360.0 *)
WrapAngle(a) == IF RLt(a, Zero) THEN RoundToDouble(RAdd(a, R(360))) ELSE a

(* Body::updateRotation *)
updateRotation(b, dt) ==
    [b EXCEPT !.rotationAngle =
        WrapAngle(Fmod(RoundToDouble(RAdd(b.rotationAngle,
                                          RoundToDouble(RMul(b.rotationSpeed, dt)))),
                       R(360)))]

(* Body::updatePosition (the trail is left out) *)
updatePosition(b, dt) ==
    updateRotation([b EXCEPT !.position = VAdd(b.position, VScale(b.velocity, dt))], dt)

(* the kick with the whole of dt, as Body::updateVelocity(dt) gives *)
FullKick(b, dt) ==
    [b EXCEPT !.velocity = VAdd(b.velocity, VScale(b.acceleration, dt))]

(* b.velocity += b.acceleration * (dt * 0.5) *)
HalfKick(b, dt) ==
    [b EXCEPT !.velocity = VAdd(b.velocity, VScale(b.acceleration, RMul(dt, Half)))]

MapBodies(Op(_, _), bs, dt) == [i \in 1..Len(bs) |-> Op(bs[i], dt)]

(* PhysicsEngine::stepVerlet.  merges is what its handleCollisions did.   *)
VerletFinish(collided, drifted, dt) ==
    [bodies |-> MapBodies(HalfKick, calculateAccelerations(collided.bodies), dt),
     merges |-> collided.merges,
     drifted |-> drifted]

VerletCollide(drifted, dt) == VerletFinish(handleCollisions(drifted), drifted, dt)

stepVerlet(bs, dt) ==
    VerletCollide(MapBodies(updatePosition, MapBodies(HalfKick, bs, dt), dt), dt)

(***************************************************************************)
(* PhysicsEngine::stepRK4.  Its buffers (p, v, m, tmp_p, k1_v .. k4_a) are *)
(* vectors local to the call, constructed with n elements; they are the   *)
(* functions over 1..n below.                                              *)
(***************************************************************************)
(* the count kept from the first call, as with buffers sized once *)
RK4CountKept(counts, bs) ==
    IF counts = <<>> THEN Len(bs)
    ELSE IF counts[1] < Len(bs) THEN counts[1] ELSE Len(bs)

(* PhysicsEngine.hpp:208: the number of bodies the call works on.  counts *)
(* is the body counts of the calls made before this one.                  *)
RK4Count(counts, bs) == Len(bs)

(* PhysicsEngine.hpp:217-220 of getA: f_over_r of one pair.  The product  *)
(* distSq * sqrt(distSq) is the cube of the rounded root, and G * invDist3 *)
(* is held rounded up to a multiple of Grid.                               *)
RK4PairFactor(d) ==
    RoundUp(RMul(G, RInv(Pow3(SqrtSoft(lengthSquared(d), SOFTENING_EPSILON)))))

(* what the pair loops of getA add to acc[k], in their order: for i < k   *)
(* the term acc[k] -= force_scaled * m[i], for j > k acc[k] +=            *)
(* force_scaled * m[j]                                                     *)
RECURSIVE GetAOf(_, _, _, _, _, _)
GetAOf(pos, m, n, k, o, acc) ==
    IF o > n THEN acc
    ELSE IF o = k THEN GetAOf(pos, m, n, k, o + 1, acc)
    ELSE IF o < k
    THEN GetAOf(pos, m, n, k, o + 1,
                VSub(acc, VScale(VScale(VSub(pos[k], pos[o]),
                                        RK4PairFactor(VSub(pos[k], pos[o]))), m[o])))
    ELSE GetAOf(pos, m, n, k, o + 1,
                VAdd(acc, VScale(VScale(VSub(pos[o], pos[k]),
                                        RK4PairFactor(VSub(pos[o], pos[k]))), m[o])))

(* a std::vector of n elements, written element by element *)
Filled(f, n) == SubSeq(f, 1, n)

(* the lambda getA, PhysicsEngine.hpp:214-224 *)
getA(pos, m, n) == Filled([k \in 1..n |-> GetAOf(pos, m, n, k, 1, VZero)], n)

(* x[i] + slope[i] * h for every i < n *)
RK4Advance(x, slope, h, n) ==
    Filled([i \in 1..n |-> VAdd(x[i], VScale(slope[i], h))], n)

(* PhysicsEngine.hpp:236-239: the weighted sum written to the bodies; the *)
(* bodies from n on are left as they are                                   *)
RK4Write(bs, dt, n, k1_v, k1_a, k2_v, k2_a, k3_v, k3_a, k4_v, k4_a) ==
    [i \in 1..Len(bs) |->
        IF i > n THEN bs[i]
        ELSE [bs[i] EXCEPT
                !.position = VAdd(bs[i].position,
                    VScale(VAdd(VAdd(k1_v[i], VScale(k2_v[i], R(2))),
                                VAdd(VScale(k3_v[i], R(2)), k4_v[i])),
                           RDiv(dt, R(6)))),
                !.velocity = VAdd(bs[i].velocity,
                    VScale(VAdd(VAdd(k1_a[i], VScale(k2_a[i], R(2))),
                                VAdd(VScale(k3_a[i], R(2)), k4_a[i])),
                           RDiv(dt, R(6))))]]

(* PhysicsEngine.hpp:240-241 *)
RK4Collide(written, collided) ==
    [bodies |-> calculateAccelerations(collided.bodies),
     merges |-> collided.merges,
     advanced |-> written]

RK4Finish(written) ==
    CHOOSE r \in { RK4Collide(written, collided) :
                      collided \in {handleCollisions(written)} } : TRUE

(* PhysicsEngine.hpp:228-234, one stage each; a stage computes its two    *)
(* buffers once and hands them on                                          *)
RK4Stage4(bs, dt, n, p, v, m, k1_a, k2_v, k2_a, k3_v, k3_a) ==
    CHOOSE r \in { RK4Finish(RK4Write(bs, dt, n, v, k1_a, k2_v, k2_a, k3_v, k3_a,
                                      k4_v, k4_a)) :
                      k4_v \in {RK4Advance(v, k3_a, dt, n)},
                      k4_a \in {getA(RK4Advance(p, k3_v, dt, n), m, n)} } : TRUE

RK4Stage3(bs, dt, n, p, v, m, k1_a, k2_v, k2_a) ==
    CHOOSE r \in { RK4Stage4(bs, dt, n, p, v, m, k1_a, k2_v, k2_a, k3_v, k3_a) :
                      k3_v \in {RK4Advance(v, k2_a, RMul(dt, Half), n)},
                      k3_a \in {getA(RK4Advance(p, k2_v, RMul(dt, Half), n), m, n)} } : TRUE

RK4Stage2(bs, dt, n, p, v, m, k1_a) ==
    CHOOSE r \in { RK4Stage3(bs, dt, n, p, v, m, k1_a, k2_v, k2_a) :
                      k2_v \in {RK4Advance(v, k1_a, RMul(dt, Half), n)},
                      k2_a \in {getA(RK4Advance(p, v, RMul(dt, Half), n), m, n)} } : TRUE

RK4Stage1(bs, dt, n, p, v, m) ==
    CHOOSE r \in { RK4Stage2(bs, dt, n, p, v, m, k1_a) : k1_a \in {getA(p, m, n)} } : TRUE

(* the call on its first n bodies; PhysicsEngine.hpp:212 copies p, v, m *)
stepRK4Over(bs, dt, n) ==
    CHOOSE r \in { RK4Stage1(bs, dt, n, p, v, m) :
                      p \in {Filled([i \in 1..n |-> bs[i].position], n)},
                      v \in {Filled([i \in 1..n |-> bs[i].velocity], n)},
                      m \in {Filled([i \in 1..n |-> bs[i].mass], n)} } : TRUE

(* PhysicsEngine::stepRK4 *)
stepRK4(bs, dt, counts) == stepRK4Over(bs, dt, RK4Count(counts, bs))

(***************************************************************************)
(* Octree.hpp.  A Body* is the slot of the collection it points at: &b of *)
(* the k-th body is k, and a read through it gives what slot k holds at   *)
(* the time of the read.  Node indices are the pool indices, from 0; the  *)
(* pool is held as the nodes that were allocated at least once, every     *)
(* node past them being as its constructor left it.                       *)
(***************************************************************************)
InitialCapacity == 1024
OctreeSoftening == <<1, 10000>>

NoChildren == [i \in 0..7 |-> -1]

(* OctreeNode::OctreeNode; bodies is the one-element array bodies[1], 0  *)
(* while nothing was stored in it                                          *)
OctreeNode ==
    [centerOfMass |-> VZero, totalMass |-> Zero, minBounds |-> VZero,
     size |-> Zero, children |-> NoChildren, bodies |-> 0, numBodies |-> 0,
     isLeaf |-> TRUE]

(* OctreeNode::reset *)
resetKeepingChildren(node, minB, s) ==
    [node EXCEPT !.minBounds = minB, !.size = s, !.centerOfMass = VZero,
                 !.totalMass = Zero, !.numBodies = 0, !.isLeaf = TRUE]
reset(node, minB, s) ==
    [node EXCEPT !.minBounds = minB, !.size = s, !.centerOfMass = VZero,
                 !.totalMass = Zero, !.numBodies = 0, !.isLeaf = TRUE,
                 !.children = NoChildren]

(* OctreePool::OctreePool.  size is pool.size(); diverged is set when an  *)
(* insert never returns.                                                   *)
OctreePool ==
    [pool |-> <<>>, size |-> InitialCapacity, nextFree |-> 0, diverged |-> FALSE]

(* OctreePool::operator[] *)
At(P, idx) == IF idx < Len(P.pool) THEN P.pool[idx + 1] ELSE OctreeNode

(* OctreePool::clear *)
clear(P) == [P EXCEPT !.nextFree = 0]

(* OctreePool::allocate: the pool after it and the index it returns *)
allocate(P, minB, s) ==
    LET idx == P.nextFree
        node == reset(At(P, idx), minB, s)
    IN  [tree |-> [P EXCEPT
                     !.size = IF P.nextFree >= P.size THEN P.size * 2 ELSE P.size,
                     !.pool = IF idx < Len(P.pool) THEN [P.pool EXCEPT ![idx + 1] = node]
                              ELSE Append(P.pool, node),
                     !.nextFree = idx + 1],
         idx |-> idx]

(* Octree.hpp:138-144: the octant of a position in a node *)
Octant(node, pos) ==
    LET halfSize == RMul(node.size, Half)
        mid == VAdd(node.minBounds, Vector3(halfSize, halfSize, halfSize))
    IN  (IF RLe(mid.x, pos.x) THEN 1 ELSE 0)
        + (IF RLe(mid.y, pos.y) THEN 2 ELSE 0)
        + (IF RLe(mid.z, pos.z) THEN 4 ELSE 0)

(* Octree.hpp:147-150: the minimum corner of the child cube of an octant *)
ChildMinOfParent(node, idx) == node.minBounds
ChildMin(node, idx) ==
    LET halfSize == RMul(node.size, Half)
        cMin == node.minBounds
    IN  Vector3(IF idx % 2 = 1 THEN RAdd(cMin.x, halfSize) ELSE cMin.x,
                IF (idx \div 2) % 2 = 1 THEN RAdd(cMin.y, halfSize) ELSE cMin.y,
                IF (idx \div 4) % 2 = 1 THEN RAdd(cMin.z, halfSize) ELSE cMin.z)

(* OctreePool::insert and OctreePool::insertIntoChild.  A one-body leaf   *)
(* given a body at the position of the body it holds sends both into the  *)
(* same octant at every level: the recursion does not return.             *)
RECURSIVE insert(_, _, _, _)
RECURSIVE insertIntoChild(_, _, _, _)
insertIntoChild(P, nodeIdx, body, mem) ==
    LET node == At(P, nodeIdx)
        idx == Octant(node, mem[body].position)
        a == allocate(P, ChildMin(node, idx), RMul(node.size, Half))
        P1 == IF node.children[idx] = -1
              THEN [a.tree EXCEPT !.pool[nodeIdx + 1].children[idx] = a.idx]
              ELSE P
    IN  insert(P1, At(P1, nodeIdx).children[idx], body, mem)

insert(P, nodeIdx, body, mem) ==
    LET node == At(P, nodeIdx)
    IN  IF node.isLeaf
        THEN IF node.numBodies = 0
             THEN [P EXCEPT !.pool[nodeIdx + 1].bodies = body,
                            !.pool[nodeIdx + 1].numBodies = 1,
                            !.pool[nodeIdx + 1].totalMass = mem[body].mass,
                            !.pool[nodeIdx + 1].centerOfMass = mem[body].position]
             ELSE LET existingBody == node.bodies
                      P1 == [P EXCEPT !.pool[nodeIdx + 1].isLeaf = FALSE,
                                      !.pool[nodeIdx + 1].numBodies = 0]
                  IN  IF mem[existingBody].position = mem[body].position
                      THEN [P1 EXCEPT !.diverged = TRUE]
                      ELSE insertIntoChild(insertIntoChild(P1, nodeIdx, existingBody, mem),
                                           nodeIdx, body, mem)
        ELSE LET P1 == insertIntoChild(P, nodeIdx, body, mem)
                 n1 == At(P1, nodeIdx)
                 sum == RAdd(n1.totalMass, mem[body].mass)
             IN  IF P1.diverged THEN P1
                 ELSE [P1 EXCEPT
                         !.pool[nodeIdx + 1].centerOfMass =
                             VDivS(VAdd(VScale(n1.centerOfMass, n1.totalMass),
                                        VScale(mem[body].position, mem[body].mass)),
                                   sum),
                         !.pool[nodeIdx + 1].totalMass = sum]

(* The children a node pushes, Octree.hpp:194-196, in push order *)
RECURSIVE ChildrenFrom(_, _)
ChildrenFrom(node, i) ==
    IF i > 7 THEN <<>>
    ELSE (IF node.children[i] # -1 THEN <<node.children[i]>> ELSE <<>>)
         \o ChildrenFrom(node, i + 1)

(* One addend of totalForce, Octree.hpp:181-184 and 189-192: the vector r *)
(* times G * k * invD3, invD3 = 1 / (d2 * sqrt(d2)), d2 = |r|^2 + eps.    *)
(* It is kept as r, k and eps: the square root is not a fraction.         *)
Term(r, k, eps) == [r |-> r, k |-> k, eps |-> eps]

(* Octree.hpp:187-188: node.size / dist < theta for theta >= 0, compared  *)
(* in squares; onZero is what the comparison gives when dist is 0         *)
FarAlways(node, dist2, theta, onZero) == TRUE
Far(node, dist2, theta, onZero) ==
    IF dist2 = Zero THEN onZero
    ELSE RLt(RMul(node.size, node.size), RMul(RMul(theta, theta), dist2))

(* The loop of OctreePool::calculateForceIterative.  out.terms are the    *)
(* addends of totalForce in order, out.visited the nodes popped, and      *)
(* out.denominators the distance-derived denominators of the divisions,   *)
(* each as the squared distance and the softening added to it.            *)
RECURSIVE ForceLoop(_, _, _, _, _, _, _)
ForceLoop(P, traversalStack, body, theta, mem, onZero, out) ==
    IF traversalStack = <<>> THEN out
    ELSE LET nodeIdx == traversalStack[Len(traversalStack)]
             popped == SubSeq(traversalStack, 1, Len(traversalStack) - 1)
             node == At(P, nodeIdx)
             seen == [out EXCEPT !.visited = Append(@, nodeIdx)]
         IN  IF node.isLeaf
             THEN IF node.numBodies > 0 /\ node.bodies # body
                  THEN LET r == VSub(mem[node.bodies].position, mem[body].position)
                       IN  ForceLoop(P, popped, body, theta, mem, onZero,
                              [seen EXCEPT
                                 !.terms = Append(@, Term(r, RMul(mem[body].mass,
                                                mem[node.bodies].mass), OctreeSoftening)),
                                 !.denominators = Append(@,
                                     [line |-> 183, distSq |-> lengthSquared(r),
                                      softening |-> OctreeSoftening])])
                  ELSE ForceLoop(P, popped, body, theta, mem, onZero, seen)
             ELSE LET r == VSub(node.centerOfMass, mem[body].position)
                      tested == [seen EXCEPT !.denominators = Append(@,
                                    [line |-> 188, distSq |-> lengthSquared(r),
                                     softening |-> Zero])]
                  IN  IF Far(node, lengthSquared(r), theta, onZero)
                      THEN ForceLoop(P, popped, body, theta, mem, onZero,
                              [tested EXCEPT
                                 !.terms = Append(@, Term(r, RMul(mem[body].mass,
                                                node.totalMass), OctreeSoftening)),
                                 !.denominators = Append(@,
                                     [line |-> 191, distSq |-> lengthSquared(r),
                                      softening |-> OctreeSoftening])])
                      ELSE ForceLoop(P, popped \o ChildrenFrom(node, 0), body, theta,
                                     mem, onZero, tested)

(* OctreePool::calculateForceIterative with totalForce zero on entry *)
calculateForceIterative(P, rootIdx, body, theta, mem, onZero) ==
    ForceLoop(P, <<rootIdx>>, body, theta, mem, onZero,
              [terms |-> <<>>, visited |-> <<>>, denominators |-> <<>>])

(* Octree.hpp:182-184: the number G * invD3 of an addend, the product     *)
(* held rounded up to a multiple of Grid as in PairFactor                 *)
TermFactor(t) ==
    LET d == SqrtSoft(lengthSquared(t.r), t.eps)
    IN  RoundUp(RMul(G, RInv(RMul(d, RMul(d, d)))))

(* totalForce as a vector *)
RECURSIVE ForceValue(_)
ForceValue(terms) ==
    IF terms = <<>> THEN VZero
    ELSE VAdd(VScale(Head(terms).r, RMul(Head(terms).k, TermFactor(Head(terms)))),
              ForceValue(Tail(terms)))

(* PhysicsEngine.hpp:266-271: the root cube of a non-empty collection *)
RECURSIVE Least(_, _, _)
Least(bs, axis, k) ==
    IF k = Len(bs) THEN bs[k].position[axis]
    ELSE RMin(bs[k].position[axis], Least(bs, axis, k + 1))
RECURSIVE Greatest(_, _, _)
Greatest(bs, axis, k) ==
    IF k = Len(bs) THEN bs[k].position[axis]
    ELSE RMax(bs[k].position[axis], Greatest(bs, axis, k + 1))

RootCube(bs) ==
    LET minB == Vector3(Least(bs, "x", 1), Least(bs, "y", 1), Least(bs, "z", 1))
        maxB == Vector3(Greatest(bs, "x", 1), Greatest(bs, "y", 1), Greatest(bs, "z", 1))
        s == RAdd(RMul(RMax(RSub(maxB.x, minB.x),
                            RMax(RSub(maxB.y, minB.y), RSub(maxB.z, minB.z))), Half),
                  <<1, 10>>)
        mid == VScale(VAdd(minB, maxB), Half)
    IN  [minBounds |-> VSub(mid, Vector3(s, s, s)), size |-> RMul(s, R(2))]

(* PhysicsEngine.hpp:273: pool.insert(rootIdx, &b) for every body from k on *)
RECURSIVE InsertAll(_, _, _, _)
InsertAll(P, rootIdx, k, bs) ==
    IF k > Len(bs) \/ P.diverged THEN P
    ELSE InsertAll(insert(P, rootIdx, k, bs), rootIdx, k + 1, bs)

(* PhysicsEngine.hpp:278-282: the acceleration of body k from the tree *)
TreeAcceleration(P, rootIdx, k, theta, mem, onZero) ==
    VDivS(ForceValue(calculateForceIterative(P, rootIdx, k, theta, mem, onZero).terms),
          mem[k].mass)

(* PhysicsEngine.hpp:263-273: the tree of the collection *)
BuildFrom(root, bs) ==
    [pool |-> InsertAll(root.tree, root.idx, 1, bs), rootIdx |-> root.idx]

BuildTree(P, bs) ==
    BuildFrom(allocate(clear(P), RootCube(bs).minBounds, RootCube(bs).size), bs)

(* PhysicsEngine.hpp:278-283: the accelerations from the tree and the     *)
(* second half-kick.  mem is what the slots of the collection hold.       *)
BarnesHutKick(tree, live, mem, dt, theta, onZero) ==
    MapBodies(HalfKick,
              [k \in 1..Len(live) |->
                  [live[k] EXCEPT !.acceleration =
                      TreeAcceleration(tree.pool, tree.rootIdx, k, theta, mem, onZero)]],
              dt)

BarnesHutFinish(tree, collided, drifted, dt, theta, stale, onZero) ==
    IF tree.pool.diverged
    THEN [returned |-> FALSE, pool |-> tree.pool, rootIdx |-> tree.rootIdx]
    ELSE [returned |-> TRUE, pool |-> tree.pool, rootIdx |-> tree.rootIdx,
          bodies |-> BarnesHutKick(tree, collided.bodies, collided.bodies \o stale,
                                   dt, theta, onZero),
          merges |-> collided.merges, drifted |-> drifted,
          mem |-> collided.bodies \o stale]

BarnesHutCollide(tree, drifted, dt, theta, stale, onZero) ==
    BarnesHutFinish(tree, handleCollisions(drifted), drifted, dt, theta, stale, onZero)

(* PhysicsEngine::stepBarnesHut on a non-empty collection.  stale is what *)
(* the slots behind the collection hold once handleCollisions has erased  *)
(* bodies: a leaf built before the erase still points at them.            *)
stepBarnesHut(bs, P, dt, theta, stale, onZero) ==
    BarnesHutCollide(BuildTree(P, bs),
                     MapBodies(updatePosition, MapBodies(HalfKick, bs, dt), dt),
                     dt, theta, stale, onZero)

(***************************************************************************)
(* StateManager.hpp.  A file is its lines, a line or a name a sequence of *)
(* characters.  A double is written by operator<< (six significant        *)
(* digits, as %g) and read back by std::stod.                              *)
(***************************************************************************)
Digits == <<"0", "1", "2", "3", "4", "5", "6", "7", "8", "9">>
IsDigit(c) == \E d \in 1..10 : Digits[d] = c
DigitOf(c) == (CHOOSE d \in 1..10 : Digits[d] = c) - 1

(* x * 10^k *)
RECURSIVE Scale10(_, _)
Scale10(x, k) ==
    IF k = 0 THEN x
    ELSE IF k > 0 THEN Scale10(RMul(x, R(10)), k - 1)
    ELSE Scale10(RDiv(x, R(10)), k + 1)

(* the decimal exponent of x > 0: 10^e <= x < 10^(e+1) *)
RECURSIVE Exp10(_)
Exp10(x) ==
    IF RLe(R(10), x) THEN Exp10(RDiv(x, R(10))) + 1
    ELSE IF RLt(x, One) THEN Exp10(RMul(x, R(10))) - 1
    ELSE 0

(* the decimal digits of n in exactly w places *)
RECURSIVE DigitsOf(_, _)
DigitsOf(n, w) ==
    IF w = 0 THEN <<>> ELSE Append(DigitsOf(n \div 10, w - 1), Digits[(n % 10) + 1])

RECURSIVE StripZeros(_)
StripZeros(ds) ==
    IF Len(ds) > 1 /\ ds[Len(ds)] = "0" THEN StripZeros(SubSeq(ds, 1, Len(ds) - 1))
    ELSE ds

Zeros(n) == [i \in 1..n |-> "0"]

(* operator<<(double) at the default precision 6 for x > 0: the digits ds *)
(* of the six-digit rounding, trailing zeros dropped, at the exponent e    *)
FormatDigits(e, ds) ==
    IF e < -4 \/ e >= 6
    THEN <<ds[1]>>
         \o (IF Len(ds) > 1 THEN <<".">> \o SubSeq(ds, 2, Len(ds)) ELSE <<>>)
         \o <<"e", IF e < 0 THEN "-" ELSE "+">>
         \o DigitsOf(Abs(e), IF Abs(e) < 100 THEN 2 ELSE 3)
    ELSE IF e < 0
    THEN <<"0", ".">> \o Zeros(-e - 1) \o ds
    ELSE IF Len(ds) <= e + 1
    THEN ds \o Zeros(e + 1 - Len(ds))
    ELSE SubSeq(ds, 1, e + 1) \o <<".">> \o SubSeq(ds, e + 2, Len(ds))

FormatRounded(e0, n0) ==
    IF n0 = 1000000 THEN FormatDigits(e0 + 1, <<"1">>)
    ELSE FormatDigits(e0, StripZeros(DigitsOf(n0, 6)))

FormatAt(x, e0) == FormatRounded(e0, RoundHalfEven(Scale10(x, 5 - e0)))

FormatPositive(x) == FormatAt(x, Exp10(x))

Format(x) ==
    IF x = Zero THEN <<"0">>
    ELSE IF x[1] < 0 THEN <<"-">> \o FormatPositive(RNeg(x))
    ELSE FormatPositive(x)

(* the digits of s from i on: how many there are and their value *)
RECURSIVE DigitRun(_, _, _, _)
DigitRun(s, i, count, value) ==
    IF i <= Len(s) /\ IsDigit(s[i])
    THEN DigitRun(s, i + 1, count + 1, value * 10 + DigitOf(s[i]))
    ELSE [next |-> i, count |-> count, value |-> value]

RECURSIVE SkipSpaces(_, _)
SkipSpaces(s, i) == IF i <= Len(s) /\ s[i] = " " THEN SkipSpaces(s, i + 1) ELSE i

(* std::stod of a decimal number: leading spaces, a sign, digits with an  *)
(* optional point, an optional exponent; what follows is ignored.  With   *)
(* no digit there is no conversion: std::invalid_argument is thrown.      *)
NoDigits(i) == [next |-> i, count |-> 0, value |-> 0]

StodPower(s, i2, esigned) ==
    IF DigitRun(s, IF esigned THEN i2 + 2 ELSE i2 + 1, 0, 0).count = 0 THEN 0
    ELSE IF esigned /\ s[i2 + 1] = "-"
    THEN -DigitRun(s, i2 + 2, 0, 0).value
    ELSE DigitRun(s, IF esigned THEN i2 + 2 ELSE i2 + 1, 0, 0).value

StodExponent(s, i2) ==
    IF i2 <= Len(s) /\ s[i2] \in {"e", "E"}
    THEN StodPower(s, i2, i2 + 1 <= Len(s) /\ s[i2 + 1] \in {"+", "-"})
    ELSE 0

StodValue(s, negative, int, frac) ==
    IF int.count + frac.count = 0 THEN [thrown |-> TRUE]
    ELSE [thrown |-> FALSE,
          value |-> RMul(IF negative THEN R(-1) ELSE One,
                         Scale10(RAdd(R(int.value), Scale10(R(frac.value), -frac.count)),
                                 StodExponent(s, frac.next)))]

StodFraction(s, negative, int) ==
    StodValue(s, negative, int,
              IF int.next <= Len(s) /\ s[int.next] = "."
              THEN DigitRun(s, int.next + 1, 0, 0)
              ELSE NoDigits(int.next))

StodSigned(s, i0) ==
    IF i0 <= Len(s) /\ s[i0] \in {"+", "-"}
    THEN StodFraction(s, s[i0] = "-", DigitRun(s, i0 + 1, 0, 0))
    ELSE StodFraction(s, FALSE, DigitRun(s, i0, 0, 0))

Stod(s) == StodSigned(s, SkipSpaces(s, 1))

RECURSIVE Join(_)
Join(tokens) ==
    IF Len(tokens) = 1 THEN tokens[1]
    ELSE tokens[1] \o <<",">> \o Join(Tail(tokens))

(* StateManager.hpp:42: the header, by its column names *)
Header ==
    Join(<< <<"n","a","m","e">>, <<"m","a","s","s">>, <<"r","a","d","i","u","s">>,
            <<"p","x">>, <<"p","y">>, <<"p","z">>, <<"v","x">>, <<"v","y">>, <<"v","z">>,
            <<"r","o","t","A","n","g","l","e">>, <<"r","o","t","S","p","e","e","d">>,
            <<"a","x","i","a","l","T","i","l","t">> >>)

(* StateManager.hpp:46-52: the line of one body *)
BodyNumbers(body) ==
    << body.mass, body.radius,
       body.position.x, body.position.y, body.position.z,
       body.velocity.x, body.velocity.y, body.velocity.z,
       body.rotationAngle, body.rotationSpeed, body.axialTilt >>

BodyLine(body) ==
    Join(<<body.name>> \o [k \in 1..11 |-> Format(BodyNumbers(body)[k])])

(* StateManager::saveState on a file that opened: the lines written *)
saveState(bs) == <<Header>> \o [i \in 1..Len(bs) |-> BodyLine(bs[i])]

(* StateManager.hpp:81-83: std::getline(ss, token, ',') until it fails *)
RECURSIVE Tokens(_, _, _)
Tokens(line, i, token) ==
    IF i > Len(line) THEN (IF token = <<>> /\ (i = 1 \/ line[i - 1] = ",") THEN <<>> ELSE <<token>>)
    ELSE IF line[i] = "," THEN <<token>> \o Tokens(line, i + 1, <<>>)
    ELSE Tokens(line, i + 1, Append(token, line[i]))

(* StateManager.hpp:85-98: the body of a line of twelve tokens or more, or *)
(* the exception of the first std::stod that converts nothing              *)
BodyOf(name, n) ==
    [Body(name, n[2].value, n[3].value,
          Vector3(n[4].value, n[5].value, n[6].value),
          Vector3(n[7].value, n[8].value, n[9].value))
     EXCEPT !.rotationAngle = n[10].value,
            !.rotationSpeed = n[11].value,
            !.axialTilt = n[12].value]

LineNumbers(name, n) ==
    IF \E k \in 2..12 : n[k].thrown THEN [thrown |-> TRUE]
    ELSE [thrown |-> FALSE, body |-> BodyOf(name, n)]

LineBody(tokens) == LineNumbers(tokens[1], [k \in 2..12 |-> Stod(tokens[k])])

(* StateManager.hpp:78-99: the loop over the lines from k on *)
RECURSIVE LoadLines(_, _, _)
LoadTokens(tokens) ==
    IF Len(tokens) >= 12 THEN LineBody(tokens) ELSE [thrown |-> FALSE, skipped |-> TRUE]

LoadLine(lines, k, loaded, b) ==
    IF b.thrown THEN [thrown |-> TRUE]
    ELSE LoadLines(lines, k + 1,
                   IF "skipped" \in DOMAIN b THEN loaded ELSE Append(loaded, b.body))

LoadLines(lines, k, loaded) ==
    IF k > Len(lines) THEN [thrown |-> FALSE, bodies |-> loaded]
    ELSE LoadLine(lines, k, loaded, LoadTokens(Tokens(lines[k], 1, <<>>)))

(* StateManager::loadState on a file that opened: the first line is skipped *)
loadState(lines) == LoadLines(lines, 2, <<>>)

(***************************************************************************)
(* State                                                                   *)
(***************************************************************************)
VARIABLES
    bodies,     \* the body collection the caller holds (system in main.cpp)
    last,       \* the last engine call: its name, the collection it was given, what it reported
    steps,      \* engine calls made so far
    pool,       \* the OctreePool (static in stepBarnesHut): it outlives the calls
    rootIdx,    \* the root of the tree under construction, -1 before one is allocated
    inserted,   \* how many bodies of the collection were inserted into that tree
    file,       \* the state file: whether it exists, its lines, who wrote them
    earlier,    \* the body counts of the stepRK4 calls made so far, oldest first
    history,    \* HistoryManager::history, the deque of snapshots, oldest first
    epochs,     \* HistoryManager::epochs, the named snapshots
    maxSnapshots, \* HistoryManager::maxSnapshots, set by the constructor
    guiState,   \* GuiEngine's SimulationState as main.cpp reads and writes it
    wasTimeTravelActive \* main's local: timeTravelActive as the frame before saw it

vars == <<bodies, last, steps, pool, rootIdx, inserted, file,
          earlier, history, epochs, maxSnapshots, guiState, wasTimeTravelActive>>

(* GuiEngine.hpp:46-55, with the fields main.cpp:309-341 uses *)
SimulationState ==
    [paused |-> FALSE, timeRate |-> One, integrator |-> 2, elapsedYears |-> Zero,
     timeTravelActive |-> FALSE, scrubTime |-> Zero]

(* HistoryManager.hpp:35 *)
DEFAULT_MAX_SNAPSHOTS == 5000

Names == <<<<"A">>, <<"B">>, <<"C">>, <<"D">>, <<"E">>>>

(* The initial collections.  Each body has one of the masses and starts  *)
(* on one of the tracks, a position with a velocity; two bodies on one    *)
(* track coincide.  The radius is ten times the mass, so that bodies four *)
(* apart overlap when both are heavy and do not when one is light.        *)
Masses == {<<1, 8>>, <<1, 4>>}
Tracks ==
    { [p |-> Vector3(Zero, Zero, Zero), v |-> Vector3(One, Zero, Zero)],
      [p |-> Vector3(R(6), Zero, Zero), v |-> Vector3(R(-1), Zero, Zero)],
      [p |-> Vector3(Zero, R(4), Zero), v |-> Vector3(Zero, R(-1), Zero)] }

InitialBody(i, m, t) == Body(Names[i], m, RMul(R(10), m), t.p, t.v)

InitialCollections ==
    UNION {
        { [i \in 1..n |-> InitialBody(i, ms[i], ts[i])] :
            ms \in [1..n -> Masses],
            ts \in [1..n -> Tracks] } :
        n \in 1..MaxBodies }

Init ==
    /\ bodies \in InitialCollections
    /\ last = [op |-> "none"]
    /\ steps = 0
    /\ pool = OctreePool
    /\ rootIdx = -1
    /\ inserted = 0
    /\ file = [exists |-> FALSE]
    /\ earlier = <<>>
    /\ history = <<>>
    /\ epochs = <<>>
    /\ maxSnapshots = DEFAULT_MAX_SNAPSHOTS
    /\ guiState = SimulationState
    /\ wasTimeTravelActive = FALSE

HandleCollisionsCall ==
    /\ steps < MaxSteps
    /\ \E r \in {handleCollisions(bodies)} :
           /\ bodies' = r.bodies
           /\ last' = [op |-> "handleCollisions", pre |-> bodies,
                       merges |-> r.merges]
    /\ steps' = steps + 1
    /\ UNCHANGED <<pool, rootIdx, inserted, file>>
    /\ UNCHANGED <<earlier, history, epochs, maxSnapshots>>
    /\ UNCHANGED <<guiState, wasTimeTravelActive>>

(* the base timesteps a caller passes: 0.01 (the tests), 1, and one above *)
(* 0.01 * sqrt(1e18) = 1e7                                                 *)
BaseDts == {<<1, 100>>, One, R(20000000)}

GetAdaptiveTimestepCall ==
    /\ steps < MaxSteps
    /\ \E baseDt \in BaseDts :
          last' = [op |-> "getAdaptiveTimestep", pre |-> bodies,
                   baseDt |-> baseDt,
                   result |-> getAdaptiveTimestep(bodies, baseDt)]
    /\ steps' = steps + 1
    /\ UNCHANGED <<bodies, pool, rootIdx, inserted, file>>
    /\ UNCHANGED <<earlier, history, epochs, maxSnapshots>>
    /\ UNCHANGED <<guiState, wasTimeTravelActive>>

(* the timesteps a caller passes to an integrator *)
Dts == {One, R(2)}

RAbs(a) == <<Abs(a[1]), a[2]>>
VWithin(a, r) ==
    /\ RLe(RAbs(a.x), r) /\ RLe(RAbs(a.y), r) /\ RLe(RAbs(a.z), r)
    /\ a.x[2] <= MaxDenominator /\ a.y[2] <= MaxDenominator /\ a.z[2] <= MaxDenominator
InRange(bs) ==
    \A i \in 1..Len(bs) :
        /\ VWithin(bs[i].position, R(MaxRange))
        /\ VWithin(bs[i].velocity, R(MaxRange))
        /\ VWithin(bs[i].acceleration, R(MaxRange))

StepVerletCall ==
    /\ steps < MaxSteps
    /\ InRange(bodies)
    /\ \E dt \in Dts :
          \E r \in {stepVerlet(bodies, dt)} :
              /\ bodies' = r.bodies
              /\ last' = [op |-> "stepVerlet", pre |-> bodies, dt |-> dt,
                          merges |-> r.merges, drifted |-> r.drifted,
                          run |-> IF last.op = "stepVerlet" THEN last.run + 1 ELSE 1]
    /\ steps' = steps + 1
    /\ UNCHANGED <<pool, rootIdx, inserted, file>>
    /\ UNCHANGED <<earlier, history, epochs, maxSnapshots>>
    /\ UNCHANGED <<guiState, wasTimeTravelActive>>

Next ==
    \/ HandleCollisionsCall
    \/ StepVerletCall

Spec == Init /\ [][Next]_vars

NextTimestep ==
    \/ GetAdaptiveTimestepCall

SpecTimestep == Init /\ [][NextTimestep]_vars

(***************************************************************************)
(* Building and querying a tree call by call                               *)
(***************************************************************************)
(* Bodies at rest at pairwise distinct points, in any order *)
TreePositions ==
    { Vector3(Zero, Zero, Zero), Vector3(One, Zero, Zero), Vector3(R(4), Zero, Zero),
      Vector3(Zero, R(4), Zero), Vector3(R(4), R(4), R(4)) }

TreeCollections ==
    UNION {
        { [i \in 1..n |-> InitialBody(i, ms[i], [p |-> ps[i], v |-> VZero])] :
            ms \in [1..n -> Masses],
            ps \in { f \in [1..n -> TreePositions] :
                        \A i, j \in 1..n : i # j => f[i] # f[j] } } :
        n \in 1..MaxBodies }

InitTree ==
    /\ bodies \in TreeCollections
    /\ last = [op |-> "none"]
    /\ steps = 0
    /\ pool = OctreePool
    /\ rootIdx = -1
    /\ inserted = 0
    /\ file = [exists |-> FALSE]
    /\ earlier = <<>>
    /\ history = <<>>
    /\ epochs = <<>>
    /\ maxSnapshots = DEFAULT_MAX_SNAPSHOTS
    /\ guiState = SimulationState
    /\ wasTimeTravelActive = FALSE

(* pool.clear() and pool.allocate of the root cube, PhysicsEngine.hpp:263-272 *)
AllocateRootCall ==
    /\ rootIdx = -1
    /\ \E root \in {allocate(clear(pool), RootCube(bodies).minBounds,
                                RootCube(bodies).size)} :
           /\ pool' = root.tree
           /\ rootIdx' = root.idx
    /\ inserted' = 0
    /\ last' = [op |-> "allocate"]
    /\ UNCHANGED <<bodies, steps, file>>
    /\ UNCHANGED <<earlier, history, epochs, maxSnapshots>>
    /\ UNCHANGED <<guiState, wasTimeTravelActive>>

(* pool.insert(rootIdx, &b) of the next body, PhysicsEngine.hpp:273 *)
InsertCall ==
    /\ rootIdx # -1
    /\ inserted < Len(bodies)
    /\ pool' = insert(pool, rootIdx, inserted + 1, bodies)
    /\ inserted' = inserted + 1
    /\ last' = [op |-> "insert", body |-> inserted + 1]
    /\ UNCHANGED <<bodies, steps, rootIdx, file>>
    /\ UNCHANGED <<earlier, history, epochs, maxSnapshots>>
    /\ UNCHANGED <<guiState, wasTimeTravelActive>>

(* the opening angles a caller passes: the limit 0, the default 0.5, and 2 *)
Thetas == {Zero, Half, R(2)}

(* pool.calculateForceIterative(rootIdx, &b, theta, f) on the finished tree *)
CalculateForceCall ==
    /\ rootIdx # -1
    /\ inserted = Len(bodies)
    /\ \E body \in 1..Len(bodies), theta \in Thetas, onZero \in BOOLEAN :
          \E out \in {calculateForceIterative(pool, rootIdx, body, theta, bodies, onZero)} :
              last' = [op |-> "calculateForceIterative", body |-> body,
                       theta |-> theta, terms |-> out.terms,
                       visited |-> out.visited,
                       denominators |-> out.denominators]
    /\ UNCHANGED <<bodies, steps, pool, rootIdx, inserted, file>>
    /\ UNCHANGED <<earlier, history, epochs, maxSnapshots>>
    /\ UNCHANGED <<guiState, wasTimeTravelActive>>

NextTree ==
    \/ AllocateRootCall
    \/ InsertCall
    \/ CalculateForceCall

SpecTree == InitTree /\ [][NextTree]_vars

(***************************************************************************)
(* The Barnes-Hut integrator                                               *)
(***************************************************************************)
Range(seq) == { seq[i] : i \in 1..Len(seq) }

(* the call that built its tree from two bodies at one position *)
Crashed == last.op = "stepBarnesHut" /\ ~last.returned

StepBarnesHutCall ==
    /\ steps < MaxSteps
    /\ ~Crashed
    /\ InRange(bodies)
    /\ \E dt \in Dts, theta \in {Zero, Half}, onZero \in BOOLEAN :
          \E drifted \in {MapBodies(updatePosition, MapBodies(HalfKick, bodies, dt), dt)} :
          \E collided \in {handleCollisions(drifted).bodies} :
          \E stale \in [1..(Len(bodies) - Len(collided)) ->
                            Range(drifted) \cup Range(collided)] :
          \E r \in {stepBarnesHut(bodies, pool, dt, theta, stale, onZero)} :
                    /\ pool' = r.pool
                    /\ rootIdx' = r.rootIdx
                    /\ IF r.returned
                       THEN /\ bodies' = r.bodies
                            /\ inserted' = Len(bodies)
                            /\ last' = [op |-> "stepBarnesHut", returned |-> TRUE,
                                        pre |-> bodies, dt |-> dt, theta |-> theta,
                                        merges |-> r.merges, drifted |-> r.drifted,
                                        mem |-> r.mem]
                       ELSE /\ bodies' = bodies
                            /\ inserted' = inserted
                            /\ last' = [op |-> "stepBarnesHut", returned |-> FALSE,
                                        pre |-> bodies]
    /\ steps' = steps + 1
    /\ UNCHANGED file
    /\ UNCHANGED <<earlier, history, epochs, maxSnapshots>>
    /\ UNCHANGED <<guiState, wasTimeTravelActive>>

NextBarnesHut ==
    \/ StepBarnesHutCall

SpecBarnesHut == Init /\ [][NextBarnesHut]_vars

(***************************************************************************)
(* The Runge-Kutta integrator, called on one collection after another      *)
(***************************************************************************)
(* Masses that keep the accelerations on the grid, and a radius of a half: *)
(* bodies overlap when they are less than one apart.                       *)
RK4Masses == {R(4), R(8)}
RK4Body(i, m, t) == Body(Names[i], m, Half, t.p, t.v)

(* three tracks eight apart; two bodies on one track coincide *)
RK4Tracks ==
    { [p |-> Vector3(Zero, Zero, Zero), v |-> Vector3(Zero, Zero, One)],
      [p |-> Vector3(R(8), Zero, Zero), v |-> Vector3(Zero, One, Zero)],
      [p |-> Vector3(Zero, R(8), Zero), v |-> Vector3(R(-1), Zero, Zero)] }

(* the timesteps passed to stepRK4 *)
RK4Dts == {Half, <<1, 4>>}

RK4Collections ==
    UNION {
        { [i \in 1..n |-> RK4Body(i, ms[i], ts[i])] :
            ms \in [1..n -> RK4Masses],
            ts \in [1..n -> RK4Tracks] } :
        n \in 1..MaxBodies }

InitRK4 ==
    /\ bodies \in RK4Collections
    /\ last = [op |-> "none"]
    /\ steps = 0
    /\ pool = OctreePool
    /\ rootIdx = -1
    /\ inserted = 0
    /\ file = [exists |-> FALSE]
    /\ earlier = <<>>
    /\ history = <<>>
    /\ epochs = <<>>
    /\ maxSnapshots = DEFAULT_MAX_SNAPSHOTS
    /\ guiState = SimulationState
    /\ wasTimeTravelActive = FALSE

StepRK4Call ==
    /\ steps < MaxSteps
    /\ InRange(bodies)
    /\ \E dt \in RK4Dts :
          \E r \in {stepRK4(bodies, dt, earlier)} :
              /\ bodies' = r.bodies
              /\ last' = [op |-> "stepRK4", pre |-> bodies, dt |-> dt,
                          merges |-> r.merges, advanced |-> r.advanced,
                          post |-> r.bodies]
    /\ earlier' = Append(earlier, Len(bodies))
    /\ steps' = steps + 1
    /\ UNCHANGED <<pool, rootIdx, inserted, file>>
    /\ UNCHANGED <<history, epochs, maxSnapshots>>
    /\ UNCHANGED <<guiState, wasTimeTravelActive>>

(* the caller goes on with another collection, as the test of the         *)
(* changing body count does, verify_features.cpp:302-314                  *)
PassCollectionCall ==
    /\ last.op = "stepRK4"
    /\ steps < MaxSteps
    /\ bodies' \in RK4Collections
    /\ last' = [op |-> "pass"]
    /\ UNCHANGED <<steps, pool, rootIdx, inserted, file>>
    /\ UNCHANGED <<earlier, history, epochs, maxSnapshots>>
    /\ UNCHANGED <<guiState, wasTimeTravelActive>>

NextRK4 ==
    \/ StepRK4Call
    \/ PassCollectionCall

SpecRK4 == InitRK4 /\ [][NextRK4]_vars

(***************************************************************************)
(* A rotating body                                                         *)
(***************************************************************************)
(* The angles, speeds and timesteps of the rotation test (10 and 350      *)
(* degrees, -15 and 500 degrees a step), a start at 0, a slow retrograde   *)
(* rotation, and timesteps of either sign.                                 *)
StartAngles == {Zero, R(10), R(350)}
RotationSpeeds == {R(-15), R(500), <<-1, 32>>, <<1, 32>>}
RotationDts == {<<1, 8>>, One, R(-1)}

InitRotation ==
    /\ bodies \in { << [Body(<<"V">>, One, <<1, 100>>, VZero, VZero)
                          EXCEPT !.rotationAngle = a, !.rotationSpeed = s] >> :
                       a \in StartAngles, s \in RotationSpeeds }
    /\ last = [op |-> "none"]
    /\ steps = 0
    /\ pool = OctreePool
    /\ rootIdx = -1
    /\ inserted = 0
    /\ file = [exists |-> FALSE]
    /\ earlier = <<>>
    /\ history = <<>>
    /\ epochs = <<>>
    /\ maxSnapshots = DEFAULT_MAX_SNAPSHOTS
    /\ guiState = SimulationState
    /\ wasTimeTravelActive = FALSE

(* body.updateRotation(dt) on every body *)
UpdateRotationCall ==
    /\ steps <= MaxSteps
    /\ \E dt \in RotationDts :
          /\ bodies' = MapBodies(updateRotation, bodies, dt)
          /\ last' = [op |-> "updateRotation", pre |-> bodies, dt |-> dt]
    /\ steps' = steps + 1
    /\ UNCHANGED <<pool, rootIdx, inserted, file>>
    /\ UNCHANGED <<earlier, history, epochs, maxSnapshots>>
    /\ UNCHANGED <<guiState, wasTimeTravelActive>>

NextRotation ==
    \/ UpdateRotationCall

SpecRotation == InitRotation /\ [][NextRotation]_vars

(***************************************************************************)
(* Saving and loading                                                      *)
(***************************************************************************)
(* The bodies saved: the two well-formed bodies of the malformed-file     *)
(* test, a merged body with values of many digits, and a body whose name  *)
(* holds a comma.                                                          *)
CsvBodies ==
    { [Body(<<"A">>, One, <<1, 100>>, VZero, VZero) EXCEPT !.rotationSpeed = Zero],
      [Body(<<"B">>, Half, <<1, 100>>, Vector3(One, Zero, Zero), Vector3(Zero, One, Zero))
           EXCEPT !.rotationSpeed = R(10)],
      [Body(<<"A", "-", "B">>, <<1, 8>>, <<5, 4>>,
            Vector3(<<-3, 2>>, R(1234567), <<1, 3>>),
            Vector3(<<3, 1000000>>, <<-1, 4>>, R(2)))
           EXCEPT !.rotationAngle = <<719, 2>>, !.rotationSpeed = R(-10),
                  !.axialTilt = <<47, 2>>],
      [Body(<<"A", ",", "B">>, Half, <<1, 100>>, Vector3(One, Zero, Zero),
            Vector3(Zero, One, Zero))
           EXCEPT !.rotationSpeed = R(10)] }

CsvCollections == UNION { [1..n -> CsvBodies] : n \in 0..MaxBodies }

(* verify_features.cpp:375-377 and a line of two fields *)
TestRows ==
    { Join(<< <<"V","a","l","i","d","B","o","d","y">>, <<"1",".","0">>, <<"0",".","0","1">>,
              <<"0">>, <<"0">>, <<"0">>, <<"0">>, <<"0">>, <<"0">>, <<"0">>, <<"0">>, <<"0">> >>),
      Join(<< <<"B","a","d","B","o","d","y">>, <<"I","N","V","A","L","I","D">>,
              <<"0",".","0","1">>,
              <<"0">>, <<"0">>, <<"0">>, <<"0">>, <<"0">>, <<"0">>, <<"0">>, <<"0">>, <<"0">> >>),
      Join(<< <<"A","n","o","t","h","e","r","V","a","l","i","d">>, <<"0",".","5">>,
              <<"0",".","0","1">>,
              <<"1">>, <<"0">>, <<"0">>, <<"0">>, <<"1">>, <<"0">>, <<"0">>, <<"1","0">>, <<"0">> >>),
      Join(<< <<"S","h","o","r","t">>, <<"1",".","0">> >>) }

TestFiles ==
    UNION { { <<Header>> \o rows : rows \in [1..n -> TestRows] } : n \in 1..MaxBodies }

InitCsv ==
    /\ bodies \in CsvCollections
    /\ last = [op |-> "none"]
    /\ steps = 0
    /\ pool = OctreePool
    /\ rootIdx = -1
    /\ inserted = 0
    /\ file = [exists |-> FALSE]
    /\ earlier = <<>>
    /\ history = <<>>
    /\ epochs = <<>>
    /\ maxSnapshots = DEFAULT_MAX_SNAPSHOTS
    /\ guiState = SimulationState
    /\ wasTimeTravelActive = FALSE

(* StateManager::saveState; the file may fail to open *)
SaveStateCall ==
    /\ steps < MaxSteps
    /\ \E opened \in BOOLEAN :
          /\ file' = IF opened
                     THEN [exists |-> TRUE, lines |-> saveState(bodies),
                           by |-> "saveState", of |-> bodies]
                     ELSE file
          /\ last' = [op |-> "saveState", result |-> opened]
    /\ steps' = steps + 1
    /\ UNCHANGED <<bodies, pool, rootIdx, inserted>>
    /\ UNCHANGED <<earlier, history, epochs, maxSnapshots>>
    /\ UNCHANGED <<guiState, wasTimeTravelActive>>

(* a file written by hand, as the malformed-file test writes one *)
WriteFileCall ==
    /\ steps < MaxSteps
    /\ \E lines \in TestFiles :
          file' = [exists |-> TRUE, lines |-> lines, by |-> "test"]
    /\ last' = [op |-> "write"]
    /\ steps' = steps + 1
    /\ UNCHANGED <<bodies, pool, rootIdx, inserted>>
    /\ UNCHANGED <<earlier, history, epochs, maxSnapshots>>
    /\ UNCHANGED <<guiState, wasTimeTravelActive>>

(* bodies = StateManager::loadState(file): without the file the result is *)
(* empty; an exception leaves the caller's collection as it was           *)
LoadStateCall ==
    /\ steps < MaxSteps
    /\ IF file.exists
       THEN \E r \in {loadState(file.lines)} :
                /\ bodies' = IF r.thrown THEN bodies ELSE r.bodies
                /\ last' = [op |-> "loadState", opened |-> TRUE, thrown |-> r.thrown]
       ELSE /\ bodies' = <<>>
            /\ last' = [op |-> "loadState", opened |-> FALSE, thrown |-> FALSE]
    /\ steps' = steps + 1
    /\ UNCHANGED <<pool, rootIdx, inserted, file>>
    /\ UNCHANGED <<earlier, history, epochs, maxSnapshots>>
    /\ UNCHANGED <<guiState, wasTimeTravelActive>>

NextCsv ==
    \/ SaveStateCall
    \/ WriteFileCall
    \/ LoadStateCall

SpecCsv == InitCsv /\ [][NextCsv]_vars

(***************************************************************************)
(* Orbital mechanics: OrbitCalculator.hpp and KeplerianSolver.hpp          *)
(***************************************************************************)
(* Vector3::dot and Vector3::cross, which OrbitCalculator.hpp calls at     *)
(* lines 66, 74, 99, 112, 120 and 122                                      *)
dot(a, b) == RAdd(RAdd(RMul(a.x, b.x), RMul(a.y, b.y)), RMul(a.z, b.z))
cross(a, b) ==
    Vector3(RSub(RMul(a.y, b.z), RMul(a.z, b.y)),
            RSub(RMul(a.z, b.x), RMul(a.x, b.z)),
            RSub(RMul(a.x, b.y), RMul(a.y, b.x)))

(* std::sqrt is correctly rounded: exact on the square of a fraction, and *)
(* rounded as Sqrt is elsewhere                                            *)
RECURSIVE NatRootFrom(_, _)
NatRootFrom(n, x) ==
    IF (x + n \div x) \div 2 >= x THEN x
    ELSE NatRootFrom(n, (x + n \div x) \div 2)
(* the largest natural number whose square is at most n *)
NatRoot(n) == IF n < 2 THEN n ELSE NatRootFrom(n, n)
IsSquare(n) == NatRoot(n) * NatRoot(n) = n
ExactSqrt(x) ==
    IF IsSquare(x[1]) /\ IsSquare(x[2])
    THEN <<NatRoot(x[1]), NatRoot(x[2])>>
    ELSE Sqrt(x)

(* Vector3::length *)
length(a) == ExactSqrt(lengthSquared(a))

(* x < 1e-10 and x > 1e-10.  No positive number of the model is below     *)
(* 1e-10 (the smallest is 1 / (2^31 - 1)), so x < 1e-10 is x <= 0.        *)
Below1e10(x) == RLe(x, Zero)
Above1e10(x) == RLt(Zero, x)

(* The trigonometric functions, on angles in radians.  They are exact on  *)
(* the whole quarter turns, the multiples of M_PI / 2, and take every     *)
(* other angle to the nearest quarter turn.                                *)
QuarterTurn == RDiv(M_PI, R(2))
QuarterTurns(x) ==
    IF x[1] >= 0 THEN RoundHalfEven(RDiv(x, QuarterTurn))
    ELSE -RoundHalfEven(RDiv(RNeg(x), QuarterTurn))
Cos(x) == R(<<1, 0, -1, 0>>[(QuarterTurns(x) % 4) + 1])
Sin(x) == R(<<0, 1, 0, -1>>[(QuarterTurns(x) % 4) + 1])
(* std::acos on [-1, 1]: 2 c^2 > 1 is |c| > cos(M_PI / 4) *)
Acos(c) ==
    IF RLt(One, RMul(R(2), RMul(c, c)))
    THEN IF RLt(Zero, c) THEN Zero ELSE M_PI
    ELSE QuarterTurn
(* std::atan2(y, x), in (-M_PI, M_PI] *)
Atan2(y, x) ==
    IF RLe(RAbs(y), RAbs(x))
    THEN IF RLe(Zero, x) THEN Zero
         ELSE IF RLe(Zero, y) THEN M_PI ELSE RNeg(M_PI)
    ELSE IF RLt(Zero, y) THEN QuarterTurn ELSE RNeg(QuarterTurn)

(* KeplerianSolver.hpp:30-33 *)
DEG_TO_RAD == RDiv(M_PI, R(180))
MAX_ITERATIONS == 100

(* the Newton iteration of solveKeplersEquation, lines 46-53; the step is *)
(* below TOLERANCE = 1e-12 when it is zero                                 *)
KeplerStep(E, M, e) ==
    RNeg(RDiv(RSub(RSub(E, RMul(e, Sin(E))), M),
              RSub(One, RMul(e, Cos(E)))))
RECURSIVE KeplerIterate(_, _, _, _)
KeplerIterate(E, M, e, iter) ==
    IF iter >= MAX_ITERATIONS THEN E
    ELSE IF KeplerStep(E, M, e) = Zero THEN E
    ELSE KeplerIterate(RAdd(E, KeplerStep(E, M, e)), M, e, iter + 1)
solveKeplersEquation(M, e) ==
    KeplerIterate(IF RLt(e, <<4, 5>>) THEN M ELSE M_PI, M, e, 0)

eccentricToTrueAnomaly(E, e) ==
    Atan2(RMul(ExactSqrt(RSub(One, RMul(e, e))), Sin(E)), RSub(Cos(E), e))

(* the rotation R_z(-Omega) R_x(-i) R_z(-omega) applied to a point of the *)
(* orbital plane: KeplerianSolver.hpp:110-134, OrbitCalculator.hpp:172-184 *)
RotP(i, Omega, omega) ==
    Vector3(RSub(RMul(Cos(Omega), Cos(omega)),
                 RMul(RMul(Sin(Omega), Sin(omega)), Cos(i))),
            RAdd(RMul(Sin(Omega), Cos(omega)),
                 RMul(RMul(Cos(Omega), Sin(omega)), Cos(i))),
            RMul(Sin(omega), Sin(i)))
RotQ(i, Omega, omega) ==
    Vector3(RSub(RNeg(RMul(Cos(Omega), Sin(omega))),
                 RMul(RMul(Sin(Omega), Cos(omega)), Cos(i))),
            RAdd(RNeg(RMul(Sin(Omega), Sin(omega))),
                 RMul(RMul(Cos(Omega), Cos(omega)), Cos(i))),
            RMul(Cos(omega), Sin(i)))
ToInertial(x, y, i, Omega, omega) ==
    VAdd(VScale(RotP(i, Omega, omega), x), VScale(RotQ(i, Omega, omega), y))

(* keplerianToCartesian from the anomalies on: lines 94-134 *)
StateAt(el, mu, E, nu, h) ==
    [position |->
        ToInertial(RMul(RMul(el.a, RSub(One, RMul(el.e, Cos(E)))), Cos(nu)),
                   RMul(RMul(el.a, RSub(One, RMul(el.e, Cos(E)))), Sin(nu)),
                   RMul(el.i, DEG_TO_RAD), RMul(el.Omega, DEG_TO_RAD),
                   RMul(el.omega, DEG_TO_RAD)),
     velocity |->
        ToInertial(RNeg(RMul(RDiv(mu, h), Sin(nu))),
                   RMul(RDiv(mu, h), RAdd(el.e, Cos(nu))),
                   RMul(el.i, DEG_TO_RAD), RMul(el.Omega, DEG_TO_RAD),
                   RMul(el.omega, DEG_TO_RAD))]
StateAtAnomaly(el, mu, E) ==
    StateAt(el, mu, E, eccentricToTrueAnomaly(E, el.e),
            ExactSqrt(RMul(RMul(mu, el.a), RSub(One, RMul(el.e, el.e)))))
keplerianToCartesian(el, centralMass) ==
    StateAtAnomaly(el, RMul(G, centralMass),
                   solveKeplersEquation(RMul(el.M, DEG_TO_RAD), el.e))

(***************************************************************************)
(* OrbitCalculator::calculateElements.  elements is the struct of line 52: *)
(* isValid is false and the other fields have no initializer, so they     *)
(* hold whatever the caller of the model puts there.                       *)
(***************************************************************************)
(* line 79 *)
ParabolicNever(e) == FALSE
Parabolic(e) == Below1e10(RAbs(RSub(e, One)))

(* lines 104-107 *)
AscNodeOneHalf(n, nMag) ==
    IF Above1e10(nMag) THEN Acos(Clamp(RDiv(n.x, nMag), R(-1), One)) ELSE Zero
AscNode(n, nMag) ==
    IF Above1e10(nMag)
    THEN IF RLt(n.y, Zero)
         THEN RSub(RMul(R(2), M_PI), Acos(Clamp(RDiv(n.x, nMag), R(-1), One)))
         ELSE Acos(Clamp(RDiv(n.x, nMag), R(-1), One))
    ELSE Zero
(* lines 110-115 *)
Periapsis(n, nMag, eVec, e) ==
    IF Above1e10(nMag) /\ Above1e10(e)
    THEN IF RLt(eVec.z, Zero)
         THEN RSub(RMul(R(2), M_PI),
                   Acos(Clamp(RDiv(dot(n, eVec), RMul(nMag, e)), R(-1), One)))
         ELSE Acos(Clamp(RDiv(dot(n, eVec), RMul(nMag, e)), R(-1), One))
    ELSE Zero
(* lines 118-123 *)
Anomaly(pos, vel, r, eVec, e) ==
    IF Above1e10(e)
    THEN IF RLt(dot(pos, vel), Zero)
         THEN RSub(RMul(R(2), M_PI),
                   Acos(Clamp(RDiv(dot(eVec, pos), RMul(e, r)), R(-1), One)))
         ELSE Acos(Clamp(RDiv(dot(eVec, pos), RMul(e, r)), R(-1), One))
    ELSE Zero

(* lines 94-133 *)
ElementsFound(pos, vel, r, h, hMag, eVec, e, a, n) ==
    [semiMajorAxis |-> a,
     eccentricity |-> e,
     inclination |-> Acos(Clamp(RDiv(h.z, hMag), R(-1), One)),
     longitudeAscNode |-> AscNode(n, length(n)),
     argPeriapsis |-> Periapsis(n, length(n), eVec, e),
     trueAnomaly |-> Anomaly(pos, vel, r, eVec, e),
     isValid |-> TRUE]

(* lines 77-92; a zero energy makes a = -mu / 0, minus infinity *)
ElementsOfShape(pos, vel, mu, elements, r, energy, h, hMag, eVec, e) ==
    IF Parabolic(e) THEN elements
    ELSE IF RLt(One, e) THEN elements
    ELSE IF energy = Zero THEN elements
    ELSE IF RLe(RDiv(RNeg(mu), RMul(R(2), energy)), Zero) THEN elements
    ELSE ElementsFound(pos, vel, r, h, hMag, eVec, e,
                       RDiv(RNeg(mu), RMul(R(2), energy)),
                       cross(Vector3(Zero, Zero, One), h))

(* lines 66-75 *)
ElementsOfMomentum(pos, vel, mu, elements, r, energy, h, hMag) ==
    IF Below1e10(hMag) THEN elements
    ELSE \* eVec, bound once
         CHOOSE res \in
            { ElementsOfShape(pos, vel, mu, elements, r, energy, h, hMag,
                              eVec, length(eVec)) :
              eVec \in { VSub(VDivS(cross(vel, h), mu), VDivS(pos, r)) } } : TRUE

(* lines 55-63 *)
ElementsOfLengths(pos, vel, mu, elements, r, v) ==
    IF Below1e10(r) \/ Below1e10(v) THEN elements
    ELSE CHOOSE res \in
            { ElementsOfMomentum(pos, vel, mu, elements, r,
                                 RSub(RMul(Half, RMul(v, v)), RDiv(mu, r)),
                                 h, length(h)) :
              h \in { cross(pos, vel) } } : TRUE

calculateElements(pos, vel, mu, elements) ==
    ElementsOfLengths(pos, vel, mu, elements, length(pos), length(vel))

(***************************************************************************)
(* OrbitCalculator::generateOrbitPath, for numPoints >= 1 (the program     *)
(* passes 64, GraphicsEngine.hpp:618)                                      *)
(***************************************************************************)
(* lines 161-186: the point at the true anomaly nu *)
PathPointAt(orbit, r, nu) ==
    ToInertial(RMul(r, Cos(nu)), RMul(r, Sin(nu)),
               orbit.inclination, orbit.longitudeAscNode, orbit.argPeriapsis)
PathPoint(orbit, nu) ==
    PathPointAt(orbit,
                RDiv(RMul(orbit.semiMajorAxis,
                          RSub(One, RMul(orbit.eccentricity, orbit.eccentricity))),
                     RAdd(One, RMul(orbit.eccentricity, Cos(nu)))),
                nu)
(* line 161 *)
PathAnomaly(j, numPoints) ==
    RDiv(RMul(RMul(R(2), M_PI), R(j)), R(numPoints))

(* the loop of line 160 *)
PathLastShort(numPoints) == numPoints - 1
PathLast(numPoints) == numPoints

generateOrbitPath(orbit, numPoints) ==
    IF ~orbit.isValid THEN <<>>
    ELSE IF RLe(One, orbit.eccentricity) THEN <<>>
    ELSE [k \in 1..(PathLast(numPoints) + 1) |->
            PathPoint(orbit, PathAnomaly(k - 1, numPoints))]

(***************************************************************************)
(* The orbit functions, called on state vectors and on elements.  They    *)
(* are pure, so each behaviour makes one chain of calls.                   *)
(***************************************************************************)
OrbitPositions ==
    { Vector3(Zero, Zero, Zero), Vector3(One, Zero, Zero),
      Vector3(R(2), Zero, Zero), Vector3(One, One, Zero),
      Vector3(Zero, Zero, One) }
OrbitVelocities ==
    { Vector3(Zero, Zero, Zero), Vector3(Zero, <<44, 7>>, Zero),
      Vector3(Zero, <<22, 7>>, Zero), Vector3(One, Zero, Zero),
      Vector3(Zero, R(10), Zero), Vector3(Zero, R(3), R(4)),
      Vector3(R(-4), R(4), Zero) }
OrbitMus == { G, RMul(R(4), G) }

(* what the fields without an initializer may hold *)
Uninitialized ==
    { [semiMajorAxis |-> a, eccentricity |-> e, inclination |-> Zero,
       longitudeAscNode |-> Zero, argPeriapsis |-> Zero, trueAnomaly |-> Zero,
       isValid |-> FALSE] : a \in { R(-1), One }, e \in { Half, R(2) } }

KeplerianElements(a, e, i, Omega, omega, M) ==
    [a |-> a, e |-> e, i |-> i, Omega |-> Omega, omega |-> omega, M |-> M]
(* angles in degrees; the iteration of solveKeplersEquation ends at once  *)
(* from these anomalies                                                    *)
KeplerianInputs ==
    { el \in { KeplerianElements(a, e, R(i), R(Omega), R(omega), R(M)) :
                 a \in { One, R(4) }, e \in { Zero, <<3, 5>>, <<4, 5>> },
                 i \in { -90, 0, 90, 180 }, Omega \in { 0, 90, 180, 270 },
                 omega \in { 0, 90, 180, 270 }, M \in { 0, 180 } } :
        RLe(<<4, 5>>, el.e) => el.M = R(180) }
PathSizes == { 1, 2, 4 }

InitOrbit ==
    /\ bodies = <<>>
    /\ last = [op |-> "none"]
    /\ steps = 0
    /\ pool = OctreePool
    /\ rootIdx = -1
    /\ inserted = 0
    /\ file = [exists |-> FALSE]
    /\ earlier = <<>>
    /\ history = <<>>
    /\ epochs = <<>>
    /\ maxSnapshots = DEFAULT_MAX_SNAPSHOTS
    /\ guiState = SimulationState
    /\ wasTimeTravelActive = FALSE

CalculateElementsCall ==
    /\ last.op = "none"
    /\ \E pos \in OrbitPositions, vel \in OrbitVelocities, mu \in OrbitMus,
          elements \in Uninitialized :
          last' = [op |-> "calculateElements", pos |-> pos, vel |-> vel,
                   mu |-> mu, roundTrip |-> FALSE,
                   elements |-> calculateElements(pos, vel, mu, elements)]
    /\ UNCHANGED <<bodies, steps, pool, rootIdx, inserted, file>>
    /\ UNCHANGED <<earlier, history, epochs, maxSnapshots>>
    /\ UNCHANGED <<guiState, wasTimeTravelActive>>

KeplerianToCartesianCall ==
    /\ last.op = "none"
    /\ \E el \in KeplerianInputs :
          \E state \in { keplerianToCartesian(el, One) } :
             last' = [op |-> "keplerianToCartesian", elements |-> el,
                      position |-> state.position, velocity |-> state.velocity]
    /\ UNCHANGED <<bodies, steps, pool, rootIdx, inserted, file>>
    /\ UNCHANGED <<earlier, history, epochs, maxSnapshots>>
    /\ UNCHANGED <<guiState, wasTimeTravelActive>>

(* calculateElements on the state keplerianToCartesian has returned *)
CalculateElementsOfCall ==
    /\ last.op = "keplerianToCartesian"
    /\ \E elements \in Uninitialized :
          last' = [op |-> "calculateElements", pos |-> last.position,
                   vel |-> last.velocity, mu |-> G, roundTrip |-> TRUE,
                   of |-> last.elements,
                   elements |-> calculateElements(last.position, last.velocity,
                                                  G, elements)]
    /\ UNCHANGED <<bodies, steps, pool, rootIdx, inserted, file>>
    /\ UNCHANGED <<earlier, history, epochs, maxSnapshots>>
    /\ UNCHANGED <<guiState, wasTimeTravelActive>>

GenerateOrbitPathCall ==
    /\ last.op = "calculateElements"
    /\ \E numPoints \in PathSizes :
          last' = [op |-> "generateOrbitPath", orbit |-> last.elements,
                   numPoints |-> numPoints,
                   points |-> generateOrbitPath(last.elements, numPoints)]
    /\ UNCHANGED <<bodies, steps, pool, rootIdx, inserted, file>>
    /\ UNCHANGED <<earlier, history, epochs, maxSnapshots>>
    /\ UNCHANGED <<guiState, wasTimeTravelActive>>

NextOrbit ==
    \/ CalculateElementsCall
    \/ KeplerianToCartesianCall
    \/ CalculateElementsOfCall
    \/ GenerateOrbitPathCall

SpecOrbit == InitOrbit /\ [][NextOrbit]_vars

(***************************************************************************)
(* HistoryManager.hpp: the snapshots of the system and the named epochs    *)
(***************************************************************************)
MaxHistoryCalls == 4  \* calls of the history manager in one behaviour

(* lines 47-52 and 98-102 *)
BodyState(b) ==
    [position |-> b.position, velocity |-> b.velocity,
     rotationAngle |-> b.rotationAngle]
Snapshot(time, bs) ==
    [time |-> time, bodyStates |-> [i \in 1..Len(bs) |-> BodyState(bs[i])]]

(* lines 55-57 *)
DropNewest(h) == SubSeq(h, 1, Len(h) - 1)
DropOldest(h) == Tail(h)
Bounded(h, max) == IF Len(h) > max THEN DropOldest(h) ELSE h

(* the test for a time that is the time of the last snapshot *)
TooSoonWhenEqual(h, time) ==
    h # <<>> /\ time = h[Len(h)].time

(* line 45 *)
TooSoon(h, time) ==
    h # <<>> /\ RLt(RSub(time, h[Len(h)].time), <<1, 1000>>)

record(h, max, time, bs) ==
    IF TooSoon(h, time) THEN h ELSE Bounded(Append(h, Snapshot(time, bs)), max)

(* lines 120-124 *)
RECURSIVE truncateAfter(_, _)
truncateAfter(h, time) ==
    IF h # <<>> /\ RLt(time, h[Len(h)].time)
    THEN truncateAfter(SubSeq(h, 1, Len(h) - 1), time)
    ELSE h

(* lines 97-104 *)
markEpoch(ep, name, time, bs) ==
    [n \in (DOMAIN ep) \cup {name} |->
        IF n = name THEN Snapshot(time, bs) ELSE ep[n]]

(* std::lower_bound of line 68: the first snapshot not before time, from k *)
RECURSIVE LowerBound(_, _, _)
LowerBound(h, time, k) ==
    IF k > Len(h) THEN k
    ELSE IF RLt(h[k].time, time) THEN LowerBound(h, time, k + 1)
    ELSE k

(* snip.bodyStates[i], 1-based.  The vector has no element past its size: *)
(* beyond is what a read there gives.                                      *)
StateOf(snip, i, beyond) ==
    IF i <= Len(snip.bodyStates) THEN snip.bodyStates[i] ELSE beyond

(* lines 127-134 *)
applySnapshot(snip, bs, beyond) ==
    [i \in 1..Len(bs) |->
        [bs[i] EXCEPT !.position = StateOf(snip, i, beyond).position,
                      !.velocity = StateOf(snip, i, beyond).velocity,
                      !.rotationAngle = StateOf(snip, i, beyond).rotationAngle]]

(* lines 83-92 *)
Lerp(a, b, t) == RAdd(RMul(a, RSub(One, t)), RMul(b, t))
VLerp(a, b, t) == VAdd(VScale(a, RSub(One, t)), VScale(b, t))
Interpolate(s1, s2, t, bs, beyond) ==
    [i \in 1..Len(bs) |->
        [bs[i] EXCEPT
            !.position = VLerp(StateOf(s1, i, beyond).position,
                               StateOf(s2, i, beyond).position, t),
            !.velocity = VLerp(StateOf(s1, i, beyond).velocity,
                               StateOf(s2, i, beyond).velocity, t),
            !.rotationAngle = Lerp(StateOf(s1, i, beyond).rotationAngle,
                                   StateOf(s2, i, beyond).rotationAngle, t)]]
(* the weight measured back from the later snapshot *)
WeightFromLater(s1, s2, time) ==
    IF RLt(<<1, 1000000000>>, RSub(s2.time, s1.time))
    THEN RDiv(RSub(s2.time, time), RSub(s2.time, s1.time))
    ELSE Zero
InterpolationWeight(s1, s2, time) ==
    IF RLt(<<1, 1000000000>>, RSub(s2.time, s1.time))
    THEN RDiv(RSub(time, s1.time), RSub(s2.time, s1.time))
    ELSE Zero

(* the snapshots lines 70-91 read when lower_bound gives it *)
SnapshotsRead(h, it) ==
    IF it = 1 THEN {1}
    ELSE IF it > Len(h) THEN {Len(h)}
    ELSE {it - 1, it}

(* lines 63-95 *)
getStateAtBound(h, time, bs, it, beyond) ==
    IF it = 1 THEN applySnapshot(h[1], bs, beyond)
    ELSE IF it > Len(h) THEN applySnapshot(h[Len(h)], bs, beyond)
    ELSE Interpolate(h[it - 1], h[it],
                     InterpolationWeight(h[it - 1], h[it], time), bs, beyond)
getStateAt(h, time, bs, beyond) ==
    IF h = <<>> THEN [found |-> FALSE, bodies |-> bs, read |-> {}]
    ELSE IF Len(bs) # Len(h[1].bodyStates)
         THEN [found |-> FALSE, bodies |-> bs, read |-> {}]
    ELSE [found |-> TRUE,
          bodies |-> getStateAtBound(h, time, bs, LowerBound(h, time, 1), beyond),
          read |-> SnapshotsRead(h, LowerBound(h, time, 1))]

(***************************************************************************)
(* The history manager in use: main.cpp:91 constructs it; the calls are   *)
(* those of main.cpp:276-341.  The limit is the constructor's argument.    *)
(***************************************************************************)
SnapshotLimits == { 0, 1, 2 }
RecordTimes == { One, <<2001, 2000>>, <<1001, 1000>>, R(2), R(3), R(4) }
ScrubTimes == { Zero, R(2), <<5, 2>>, R(5) }

(* what a read past the end of a snapshot's bodyStates can give *)
BeyondReads ==
    { [position |-> Vector3(R(7), R(7), R(7)), velocity |-> VZero,
       rotationAngle |-> Zero],
      [position |-> VZero, velocity |-> Vector3(R(-7), Zero, Zero),
       rotationAngle |-> R(7)] }
EpochNames == { "E1" }
HistorySpeeds == { R(40), R(-15) }

InitHistory ==
    /\ bodies \in { << [Body(Names[1], One, Half, VZero, VZero)
                          EXCEPT !.rotationSpeed = s] >> : s \in HistorySpeeds }
    /\ last = [op |-> "none"]
    /\ steps = 0
    /\ pool = OctreePool
    /\ rootIdx = -1
    /\ inserted = 0
    /\ file = [exists |-> FALSE]
    /\ earlier = <<>>
    /\ history = <<>>
    /\ epochs = <<>>
    /\ maxSnapshots \in SnapshotLimits
    /\ guiState = SimulationState
    /\ wasTimeTravelActive = FALSE

RecordCall ==
    /\ steps < MaxHistoryCalls
    /\ \E time \in RecordTimes :
          /\ history' = record(history, maxSnapshots, time, bodies)
          /\ last' = [op |-> "record", time |-> time, pre |-> history,
                      snapshot |-> Snapshot(time, bodies)]
    /\ steps' = steps + 1
    /\ UNCHANGED <<bodies, pool, rootIdx, inserted, file, earlier, epochs,
                   maxSnapshots>>
    /\ UNCHANGED <<guiState, wasTimeTravelActive>>

TruncateAfterCall ==
    /\ steps < MaxHistoryCalls
    /\ \E time \in ScrubTimes :
          /\ history' = truncateAfter(history, time)
          /\ last' = [op |-> "truncateAfter", time |-> time, pre |-> history]
    /\ steps' = steps + 1
    /\ UNCHANGED <<bodies, pool, rootIdx, inserted, file, earlier, epochs,
                   maxSnapshots>>
    /\ UNCHANGED <<guiState, wasTimeTravelActive>>

ClearCall ==
    /\ steps < MaxHistoryCalls
    /\ history' = <<>>
    /\ epochs' = <<>>
    /\ last' = [op |-> "clear", pre |-> history]
    /\ steps' = steps + 1
    /\ UNCHANGED <<bodies, pool, rootIdx, inserted, file, earlier, maxSnapshots>>
    /\ UNCHANGED <<guiState, wasTimeTravelActive>>

MarkEpochCall ==
    /\ steps < MaxHistoryCalls
    /\ \E name \in EpochNames, time \in ScrubTimes :
          /\ epochs' = markEpoch(epochs, name, time, bodies)
          /\ last' = [op |-> "markEpoch", name |-> name, time |-> time]
    /\ steps' = steps + 1
    /\ UNCHANGED <<bodies, pool, rootIdx, inserted, file, earlier, history,
                   maxSnapshots>>
    /\ UNCHANGED <<guiState, wasTimeTravelActive>>

GetStateAtCall ==
    /\ steps < MaxHistoryCalls
    /\ \E time \in ScrubTimes :
          \E beyond \in BeyondReads :
             \E res \in { getStateAt(history, time, bodies, beyond) } :
                /\ bodies' = res.bodies
                /\ last' = [op |-> "getStateAt", time |-> time, pre |-> bodies,
                            found |-> res.found, read |-> res.read]
    /\ steps' = steps + 1
    /\ UNCHANGED <<pool, rootIdx, inserted, file, earlier, history, epochs,
                   maxSnapshots>>
    /\ UNCHANGED <<guiState, wasTimeTravelActive>>

NextHistory ==
    \/ RecordCall
    \/ TruncateAfterCall
    \/ ClearCall
    \/ MarkEpochCall
    \/ GetStateAtCall
    \/ UpdateRotationCall

SpecHistory == InitHistory /\ [][NextHistory]_vars

(***************************************************************************)
(* The history manager called with collections of different body counts:  *)
(* record and getStateAt take the collection as an argument               *)
(* (HistoryManager.hpp:43, 63)                                             *)
(***************************************************************************)
ScrubStates ==
    { [p |-> Vector3(Zero, Zero, Zero), v |-> Vector3(One, Zero, Zero),
       angle |-> Zero],
      [p |-> Vector3(R(4), Zero, R(-8)), v |-> Vector3(Zero, R(2), Zero),
       angle |-> R(90)] }

ScrubBody(i, s) ==
    [Body(Names[i], One, Half, s.p, s.v) EXCEPT !.rotationAngle = s.angle,
                                                !.acceleration = s.v]

(* one body or two, the two in different states *)
ScrubCollections ==
    { <<ScrubBody(1, s)>> : s \in ScrubStates }
    \cup UNION { { <<ScrubBody(1, s), ScrubBody(2, t)>> : t \in ScrubStates \ {s} } :
                  s \in ScrubStates }

InitScrub ==
    /\ bodies \in ScrubCollections
    /\ last = [op |-> "none"]
    /\ steps = 0
    /\ pool = OctreePool
    /\ rootIdx = -1
    /\ inserted = 0
    /\ file = [exists |-> FALSE]
    /\ earlier = <<>>
    /\ history = <<>>
    /\ epochs = <<>>
    /\ maxSnapshots \in { 2, DEFAULT_MAX_SNAPSHOTS }
    /\ guiState = SimulationState
    /\ wasTimeTravelActive = FALSE

(* the next call is made with another collection *)
PassBodiesCall ==
    /\ steps < MaxHistoryCalls
    /\ last.op = "record"
    /\ bodies' \in ScrubCollections \ {bodies}
    /\ last' = [op |-> "pass"]
    /\ UNCHANGED <<steps, pool, rootIdx, inserted, file>>
    /\ UNCHANGED <<earlier, history, epochs, maxSnapshots>>
    /\ UNCHANGED <<guiState, wasTimeTravelActive>>

NextScrub ==
    \/ RecordCall
    \/ GetStateAtCall
    \/ PassBodiesCall

SpecScrub == InitScrub /\ [][NextScrub]_vars

(***************************************************************************)
(* The frame loop of main (main.cpp:308-342).  The values the panels of   *)
(* the GUI left in guiState are the inputs of a frame.                     *)
(***************************************************************************)
MaxFrames == 5   \* frames in one behaviour
FloatBits == 8   \* a float holds a value rounded to this many significant bits

(* main.cpp:76, a double, 1.0/365.25; held here as the rational 1/4 *)
baseDt == <<1, 4>>

(* the conversion (float)x of a double *)
RoundToFloat(x) ==
    IF x[1] = 0 THEN Zero
    ELSE IF x[1] < 0
         THEN RNeg(RoundToSpacing(RNeg(x), Pow2(ExponentFrom(RNeg(x), 0) - FloatBits + 1)))
    ELSE RoundToSpacing(x, Pow2(ExponentFrom(x, 0) - FloatBits + 1))

(* the time rates of the slider (GuiEngine.hpp:274) and the integrators *)
TimeRates == { One, <<3, 2>> }
Integrators == { 0, 1, 2 }
FrameScrubTimes == { Zero, <<1, 4>>, <<3, 8>> }

(* The collections a frame loop starts from: one body; two bodies at one  *)
(* position; two at rest 12.5 apart, which the adaptive timestep gives    *)
(* 0.125, once with radii that overlap and once with radii that do not.   *)
FrameBody(i, m, r, p, v) == Body(Names[i], m, r, p, v)
FrameCollections ==
    { << FrameBody(1, <<1, 4>>, Half, VZero, Vector3(One, Zero, Zero)) >>,
      << FrameBody(1, <<1, 4>>, Half, VZero, Vector3(One, Zero, Zero)),
         FrameBody(2, <<1, 4>>, Half, VZero, Vector3(One, Zero, Zero)) >>,
      << FrameBody(1, R(64), R(8), Vector3(<<-25, 4>>, Zero, Zero), VZero),
         FrameBody(2, R(64), R(8), Vector3(<<25, 4>>, Zero, Zero), VZero) >>,
      << FrameBody(1, R(64), Half, Vector3(<<-25, 4>>, Zero, Zero), VZero),
         FrameBody(2, R(64), Half, Vector3(<<25, 4>>, Zero, Zero), VZero) >> }

(* the numbers an integrator of the loop is called with: one body, or     *)
(* bodies whose components are multiples of Grid                           *)
OnGrid(x) == Grid[2] % x[2] = 0
VOnGrid(a) == OnGrid(a.x) /\ OnGrid(a.y) /\ OnGrid(a.z)
FrameInRange(bs) ==
    \/ Len(bs) = 1
    \/ \A i \in 1..Len(bs) :
          VOnGrid(bs[i].position) /\ VOnGrid(bs[i].velocity)
              /\ VOnGrid(bs[i].acceleration)

(* what the slots behind the collection hold after handleCollisions has   *)
(* erased bodies: bodies the call moved, the k-th on                      *)
StaleFrom(drifted, collided, k) ==
    [i \in 1..(Len(drifted) - Len(collided)) |->
        (drifted \o collided)[1 + ((k + i) % (Len(drifted) + Len(collided)))]]
StaleOf(drifted, k) == StaleFrom(drifted, handleCollisions(drifted).bodies, k)

(* main.cpp:336 *)
BarnesHutSubStep(bs, P, adt, k, onZero) ==
    stepBarnesHut(bs, P, adt, Half,
                  StaleOf(MapBodies(updatePosition, MapBodies(HalfKick, bs, adt), adt), k),
                  onZero)

(* what the loop has done so far *)
LoopStart(bs, P, root, ins, counts) ==
    [bodies |-> bs, pool |-> P, rootIdx |-> root, inserted |-> ins,
     counts |-> counts, currentT |-> Zero, adts |-> <<>>,
     returned |-> TRUE, inRange |-> TRUE]

Stepped(s, adt, limit, bs) ==
    [s EXCEPT !.bodies = bs, !.currentT = RAdd(s.currentT, adt),
              !.adts = Append(s.adts, [adt |-> adt, limit |-> limit,
                                       before |-> Len(s.bodies),
                                       after |-> Len(bs)])]

BarnesHutStepped(s, adt, limit, r) ==
    IF r.returned
    THEN [Stepped(s, adt, limit, r.bodies) EXCEPT
              !.pool = r.pool, !.rootIdx = r.rootIdx, !.inserted = Len(s.bodies)]
    ELSE [s EXCEPT !.pool = r.pool, !.rootIdx = r.rootIdx, !.returned = FALSE,
                   !.adts = Append(s.adts, [adt |-> adt, limit |-> limit,
                                            before |-> Len(s.bodies),
                                            after |-> Len(s.bodies)])]

(* main.cpp:332-339: the switch and currentT += adt *)
SubStep(s, integrator, adt, limit, k, onZero) ==
    IF integrator = 0 THEN Stepped(s, adt, limit, stepVerlet(s.bodies, adt).bodies)
    ELSE IF integrator = 1
    THEN [Stepped(s, adt, limit, stepRK4(s.bodies, adt, s.counts).bodies)
              EXCEPT !.counts = Append(s.counts, Len(s.bodies))]
    ELSE BarnesHutStepped(s, adt, limit,
                          BarnesHutSubStep(s.bodies, s.pool, adt, k, onZero))

(* main.cpp:328-330 *)
SubStepOf(s, integrator, frameTime, limit, k, onZero) ==
    SubStep(s, integrator, RMin(limit, RSub(frameTime, s.currentT)), limit, k, onZero)

(* main.cpp:327-340: the while loop *)
RECURSIVE SubStepLoop(_, _, _, _, _)
SubStepLoop(s, integrator, frameTime, k, onZero) ==
    IF ~s.returned \/ ~RLt(s.currentT, frameTime) THEN s
    ELSE IF ~FrameInRange(s.bodies) THEN [s EXCEPT !.inRange = FALSE]
    ELSE SubStepLoop(SubStepOf(s, integrator, frameTime,
                               getAdaptiveTimestep(s.bodies, baseDt), k, onZero),
                     integrator, frameTime, k, onZero)

(* main.cpp:309-311 on the state the GUI left *)
TimeTravelTransition(g, was) ==
    IF g.timeTravelActive /\ ~was THEN [g EXCEPT !.scrubTime = g.elapsedYears] ELSE g

(* main.cpp:341 *)
Elapsed(g, frameTime) ==
    [g EXCEPT !.elapsedYears = RoundToFloat(RAdd(g.elapsedYears, RoundToFloat(frameTime)))]

InitFrame ==
    /\ bodies \in FrameCollections
    /\ last = [op |-> "none"]
    /\ steps = 0
    /\ pool = OctreePool
    /\ rootIdx = -1
    /\ inserted = 0
    /\ file = [exists |-> FALSE]
    /\ earlier = <<>>
    /\ history = <<>>
    /\ epochs = <<>>
    /\ maxSnapshots = DEFAULT_MAX_SNAPSHOTS
    /\ guiState = SimulationState
    /\ wasTimeTravelActive = FALSE

(* the frame whose integrator did not return *)
Stuck == last.op = "frame" /\ ~last.returned

(* main.cpp:322-323 *)
TimeTravelFrame(g) ==
    \E beyond \in BeyondReads :
       \E res \in { getStateAt(history, g.scrubTime, bodies, beyond) } :
          /\ bodies' = res.bodies
          /\ guiState' = g
          /\ last' = [op |-> "frame", mode |-> "timeTravel", returned |-> TRUE,
                      pre |-> bodies, found |-> res.found, read |-> res.read,
                      was |-> wasTimeTravelActive]
          /\ UNCHANGED <<pool, rootIdx, inserted, earlier, history>>

(* main.cpp:324-342 *)
PhysicsFrame(g) ==
    \E k \in (IF g.integrator = 2 THEN 0..1 ELSE {0}),
       onZero \in (IF g.integrator = 2 THEN BOOLEAN ELSE {FALSE}) :
       \E frameTime \in { RMul(baseDt, g.timeRate) } :
       \E r \in { SubStepLoop(LoopStart(bodies, pool, rootIdx, inserted, earlier),
                              g.integrator, frameTime, k, onZero) } :
          /\ r.inRange
          /\ pool' = r.pool
          /\ rootIdx' = r.rootIdx
          /\ inserted' = r.inserted
          /\ earlier' = r.counts
          /\ last' = [op |-> "frame", mode |-> "physics", returned |-> r.returned,
                      pre |-> bodies, frameTime |-> frameTime, adts |-> r.adts,
                      currentT |-> r.currentT, was |-> wasTimeTravelActive,
                      resumedAt |-> g.elapsedYears, scrubTime |-> g.scrubTime,
                      preHistory |-> history]
          /\ IF r.returned
             THEN /\ bodies' = r.bodies
                  /\ guiState' = Elapsed(g, frameTime)
                  /\ history' = record(history, maxSnapshots,
                                       Elapsed(g, frameTime).elapsedYears, r.bodies)
             ELSE /\ bodies' = bodies
                  /\ guiState' = g
                  /\ history' = history

IdleFrame(g) ==
    /\ guiState' = g
    /\ last' = [op |-> "frame", mode |-> "paused", returned |-> TRUE,
                was |-> wasTimeTravelActive]
    /\ UNCHANGED <<bodies, pool, rootIdx, inserted, earlier, history>>

(* what the panels of the GUI leave in guiState for a frame: the time     *)
(* travel switch with its slider, or the pause button, or the time rate   *)
(* and the integrator                                                      *)
GuiInputs(g) ==
    { [g EXCEPT !.timeTravelActive = TRUE, !.scrubTime = scrub] :
          scrub \in FrameScrubTimes }
    \cup { [g EXCEPT !.timeTravelActive = FALSE, !.paused = TRUE] }
    \cup { [g EXCEPT !.timeTravelActive = FALSE, !.paused = FALSE,
                     !.timeRate = timeRate, !.integrator = integrator] :
              timeRate \in TimeRates, integrator \in Integrators }

FrameCall ==
    /\ steps < MaxFrames
    /\ ~Stuck
    /\ \E input \in GuiInputs(guiState) :
          \E g \in { TimeTravelTransition(input, wasTimeTravelActive) } :
             /\ IF g.timeTravelActive THEN TimeTravelFrame(g)
                ELSE IF ~g.paused THEN PhysicsFrame(g)
                ELSE IdleFrame(g)
             /\ wasTimeTravelActive' = g.timeTravelActive
    /\ steps' = steps + 1
    /\ UNCHANGED <<file, epochs, maxSnapshots>>

NextFrame ==
    \/ FrameCall

SpecFrame == InitFrame /\ [][NextFrame]_vars

(***************************************************************************)
(* One pool, one tree after another: the static pool of stepBarnesHut     *)
(* (PhysicsEngine.hpp:263-273), whose constructor takes the capacity      *)
(***************************************************************************)
OctreePoolOf(initialCapacity) == [OctreePool EXCEPT !.size = initialCapacity]
PoolCapacities == { 1, 2, InitialCapacity }

PoolPositions ==
    << Vector3(Zero, Zero, Zero), Vector3(One, Zero, Zero),
       Vector3(R(4), Zero, Zero), Vector3(Zero, R(4), Zero),
       Vector3(R(4), R(4), R(4)) >>

(* bodies at rest at some of the positions, in their order *)
PoolCollections ==
    UNION {
        { [i \in 1..n |-> InitialBody(i, <<1, 4>>,
                                      [p |-> PoolPositions[f[i]], v |-> VZero])] :
            f \in { g \in [1..n -> 1..Len(PoolPositions)] :
                       \A i \in 1..(n - 1) : g[i] < g[i + 1] } } :
        n \in 1..MaxBodies }

InitPool ==
    /\ bodies = <<>>
    /\ last = [op |-> "none"]
    /\ steps = 0
    /\ pool \in { OctreePoolOf(c) : c \in PoolCapacities }
    /\ rootIdx = -1
    /\ inserted = 0
    /\ file = [exists |-> FALSE]
    /\ earlier = <<>>
    /\ history = <<>>
    /\ epochs = <<>>
    /\ maxSnapshots = DEFAULT_MAX_SNAPSHOTS
    /\ guiState = SimulationState
    /\ wasTimeTravelActive = FALSE

(* pool.clear(), pool.allocate of the root cube and pool.insert of every  *)
(* body, for the collection of the frame                                   *)
BuildTreeCall ==
    /\ steps < MaxSteps
    /\ \E bs \in PoolCollections :
          \E tree \in { BuildTree(pool, bs) } :
             /\ bodies' = bs
             /\ pool' = tree.pool
             /\ rootIdx' = tree.rootIdx
             /\ inserted' = Len(bs)
             /\ last' = [op |-> "buildTree", before |-> pool]
    /\ steps' = steps + 1
    /\ UNCHANGED <<file, earlier, history, epochs, maxSnapshots>>
    /\ UNCHANGED <<guiState, wasTimeTravelActive>>

NextPool ==
    \/ BuildTreeCall

SpecPool == InitPool /\ [][NextPool]_vars

(***************************************************************************)
(* Diagnostics                                                             *)
(***************************************************************************)
RECURSIVE TotalMass(_)
TotalMass(bs) ==
    IF bs = <<>> THEN Zero ELSE RAdd(Head(bs).mass, TotalMass(Tail(bs)))

RECURSIVE TotalMomentum(_)
TotalMomentum(bs) ==
    IF bs = <<>> THEN VZero
    ELSE VAdd(VScale(Head(bs).velocity, Head(bs).mass), TotalMomentum(Tail(bs)))

(***************************************************************************)
(* C1: one call of handleCollisions leaves the total mass and the total   *)
(* linear momentum of the collection unchanged, however many merges it    *)
(* performs.                                                               *)
(***************************************************************************)
C1_MassAndMomentumConserved ==
    last.op = "handleCollisions" =>
        /\ TotalMass(bodies) = TotalMass(last.pre)
        /\ TotalMomentum(bodies) = TotalMomentum(last.pre)

(* a call that merged twice, of bodies with different masses and velocities *)
C1_Witness ==
    /\ last.op = "handleCollisions"
    /\ last.merges >= 2
    /\ \E i, j \in 1..Len(last.pre) :
          /\ last.pre[i].mass # last.pre[j].mass
          /\ last.pre[i].velocity # last.pre[j].velocity

(***************************************************************************)
(* C2: each merge of handleCollisions removes exactly one body: the count *)
(* after the call is the count before it minus the number of merges.      *)
(***************************************************************************)
C2_OneBodyPerMerge ==
    last.op = "handleCollisions" =>
        Len(bodies) = Len(last.pre) - last.merges

(* a call that merged once and left a body behind the erased slot *)
C2_Witness ==
    /\ last.op = "handleCollisions"
    /\ last.merges = 1
    /\ Len(last.pre) = 3
    /\ bodies[2].name = last.pre[3].name

(***************************************************************************)
(* C3: in a tree under construction every node's totalMass is the sum of  *)
(* the masses of the bodies held in the leaves of its subtree, the root   *)
(* and a node just converted from a one-body leaf included.               *)
(***************************************************************************)
RECURSIVE SubtreeBodies(_, _)
SubtreeBodies(P, n) ==
    LET node == At(P, n)
    IN  IF node.isLeaf
        THEN IF node.numBodies > 0 THEN {node.bodies} ELSE {}
        ELSE UNION { SubtreeBodies(P, node.children[i]) :
                        i \in { c \in 0..7 : node.children[c] # -1 } }

RECURSIVE MassOf(_, _)
MassOf(bs, slots) ==
    IF slots = {} THEN Zero
    ELSE LET k == CHOOSE x \in slots : TRUE
         IN  RAdd(bs[k].mass, MassOf(bs, slots \ {k}))

C3_TotalMassIsSubtreeSum ==
    rootIdx # -1 =>
        \A n \in 0..(pool.nextFree - 1) :
            At(pool, n).totalMass = MassOf(bodies, SubtreeBodies(pool, n))

(***************************************************************************)
(* C4: getAdaptiveTimestep returns a value in [baseDt/100, baseDt]; with  *)
(* fewer than two bodies it returns baseDt.                                *)
(***************************************************************************)
C4_InRange ==
    last.op = "getAdaptiveTimestep" =>
        /\ RLe(RDiv(last.baseDt, R(100)), last.result)
        /\ RLe(last.result, last.baseDt)
        /\ RLt(Zero, last.result)

C4_InRangeAndBaseDtAlone ==
    /\ C4_InRange
    /\ (last.op = "getAdaptiveTimestep" /\ Len(last.pre) < 2) =>
           last.result = last.baseDt

(***************************************************************************)
(* C5: with theta = 0 the force calculateForceIterative accumulates for a *)
(* body, divided by the body's mass, is the acceleration                  *)
(* calculateAccelerations gives that body for the same positions and      *)
(* masses, softening included.  Both are compared addend by addend: an    *)
(* addend is its vector, its coefficient and its softening, addends with  *)
(* the same vector (up to sign) and softening are added up.               *)
(***************************************************************************)
VNeg(a) == Vector3(RNeg(a.x), RNeg(a.y), RNeg(a.z))

Leading(r) ==
    IF r.x # Zero THEN r.x ELSE IF r.y # Zero THEN r.y ELSE r.z

Canon(t) ==
    IF Leading(t.r)[1] < 0 THEN [t EXCEPT !.r = VNeg(t.r), !.k = RNeg(t.k)] ELSE t

RECURSIVE SumK(_, _, _)
SumK(terms, r, eps) ==
    IF terms = <<>> THEN Zero
    ELSE LET t == Canon(Head(terms))
         IN  RAdd(IF t.r = r /\ t.eps = eps THEN t.k ELSE Zero,
                  SumK(Tail(terms), r, eps))

Normal(terms) ==
    LET keys == { <<Canon(terms[i]).r, terms[i].eps>> : i \in 1..Len(terms) }
        live == { key \in keys : key[1] # VZero /\ SumK(terms, key[1], key[2]) # Zero }
    IN  [key \in live |-> SumK(terms, key[1], key[2])]

(* PhysicsEngine.hpp:65-92: the addends calculateAccelerations gives body *)
(* i, those of the pairs (j, i) with j < i and those of the pairs (i, j)  *)
RECURSIVE DirectTerms(_, _, _)
DirectTerms(bs, i, j) ==
    IF j > Len(bs) THEN <<>>
    ELSE (IF j < i
          THEN <<Term(VSub(bs[i].position, bs[j].position), RNeg(bs[j].mass),
                      SOFTENING_EPSILON)>>
          ELSE IF j > i
          THEN <<Term(VSub(bs[j].position, bs[i].position), bs[j].mass,
                      SOFTENING_EPSILON)>>
          ELSE <<>>)
         \o DirectTerms(bs, i, j + 1)

PerMass(terms, m) == [i \in 1..Len(terms) |-> [terms[i] EXCEPT !.k = RDiv(@, m)]]

C5_ThetaZeroIsDirectSum ==
    (last.op = "calculateForceIterative" /\ last.theta = Zero) =>
        Normal(PerMass(last.terms, bodies[last.body].mass))
            = Normal(DirectTerms(bodies, last.body, 1))

(***************************************************************************)
(* C6: the tree stepBarnesHut computes the accelerations from is built    *)
(* from the positions after the drift of that step: every one-body leaf   *)
(* has its body's drifted position as its center of mass.                 *)
(***************************************************************************)
C6_TreeFromDriftedPositions ==
    (last.op = "stepBarnesHut" /\ last.returned) =>
        \A n \in 0..(pool.nextFree - 1) :
            (At(pool, n).isLeaf /\ At(pool, n).numBodies = 1) =>
                At(pool, n).centerOfMass = last.drifted[At(pool, n).bodies].position

(***************************************************************************)
(* C7: a call of stepVerlet on a collection whose stored accelerations    *)
(* satisfy sum of m_i * a_i = 0 leaves the total linear momentum          *)
(* unchanged, and leaves sum of m_i * a_i = 0 for the next call, so the   *)
(* momentum stays over consecutive steps, merging steps included.         *)
(***************************************************************************)
RECURSIVE TotalForce(_)
TotalForce(bs) ==
    IF bs = <<>> THEN VZero
    ELSE VAdd(VScale(Head(bs).acceleration, Head(bs).mass), TotalForce(Tail(bs)))

C7_VerletConservesMomentum ==
    (last.op = "stepVerlet" /\ TotalForce(last.pre) = VZero) =>
        /\ TotalMomentum(bodies) = TotalMomentum(last.pre)
        /\ TotalForce(bodies) = VZero

(* the second of two consecutive steps, entered with accelerations that   *)
(* are not all zero, in which bodies of different mass merged and others  *)
(* were left to attract each other                                        *)
C7_Witness ==
    /\ last.op = "stepVerlet"
    /\ last.run >= 2
    /\ last.merges >= 1
    /\ TotalForce(last.pre) = VZero
    /\ \E i \in 1..Len(last.pre) : last.pre[i].acceleration # VZero
    /\ Len(bodies) >= 2
    /\ \E i \in 1..Len(bodies) : bodies[i].acceleration # VZero
    /\ TotalMomentum(bodies) # VZero

(***************************************************************************)
(* C8: every distance-derived denominator of calculateForceIterative (the *)
(* two force branches and the opening test) has a softening added, and    *)
(* none is zero.                                                           *)
(***************************************************************************)
C8_DenominatorsSoftened ==
    last.op = "calculateForceIterative" =>
        \A k \in 1..Len(last.denominators) :
            /\ RLt(Zero, last.denominators[k].softening)
            /\ last.denominators[k].distSq # Zero
                  \/ last.denominators[k].softening # Zero

(* no denominator is zero, whatever was added to it *)
C8_NoZeroDenominator ==
    last.op = "calculateForceIterative" =>
        \A k \in 1..Len(last.denominators) :
            last.denominators[k].distSq # Zero \/ last.denominators[k].softening # Zero

(***************************************************************************)
(* C9: loadState skips every malformed row without aborting and returns   *)
(* the bodies of the well-formed rows, those of twelve fields or more     *)
(* whose eleven numeric fields are numbers, in file order.                 *)
(***************************************************************************)
WellFormed(tokens) ==
    /\ Len(tokens) >= 12
    /\ \A k \in 2..12 : ~Stod(tokens[k]).thrown

RECURSIVE WellFormedBodies(_, _)
WellFormedBodies(lines, k) ==
    IF k > Len(lines) THEN <<>>
    ELSE LET tokens == Tokens(lines[k], 1, <<>>)
         IN  (IF WellFormed(tokens) THEN <<LineBody(tokens).body>> ELSE <<>>)
             \o WellFormedBodies(lines, k + 1)

C9_SkipsMalformedRows ==
    (last.op = "loadState" /\ last.opened) =>
        /\ ~last.thrown
        /\ bodies = WellFormedBodies(file.lines, 2)

(***************************************************************************)
(* C10: loadState of the file saveState wrote returns as many bodies, in  *)
(* the same order, each with its name and with every number read from    *)
(* the column it was written to.                                           *)
(***************************************************************************)
Reread(x) == Stod(Format(x)).value

SameColumns(loaded, saved) ==
    /\ loaded.name = saved.name
    /\ loaded.mass = Reread(saved.mass)
    /\ loaded.radius = Reread(saved.radius)
    /\ loaded.position = Vector3(Reread(saved.position.x), Reread(saved.position.y),
                                 Reread(saved.position.z))
    /\ loaded.velocity = Vector3(Reread(saved.velocity.x), Reread(saved.velocity.y),
                                 Reread(saved.velocity.z))
    /\ loaded.rotationAngle = Reread(saved.rotationAngle)
    /\ loaded.rotationSpeed = Reread(saved.rotationSpeed)
    /\ loaded.axialTilt = Reread(saved.axialTilt)

C10_RoundTrip ==
    (last.op = "loadState" /\ last.opened /\ file.by = "saveState") =>
        /\ ~last.thrown
        /\ Len(bodies) = Len(file.of)
        /\ \A i \in 1..Len(bodies) : SameColumns(bodies[i], file.of[i])

(***************************************************************************)
(* C11: stepRK4 keeps no state between calls.  What a call does to the    *)
(* collection it is given is what the call does to that collection when   *)
(* it is the first call ever made, whatever the body counts of the        *)
(* earlier calls; and when no two bodies overlap where the step has moved *)
(* them, which is where the call looks for collisions, the call leaves    *)
(* the number of bodies unchanged.                                         *)
(***************************************************************************)
NoOverlap(bs) ==
    \A i, j \in 1..Len(bs) : i < j => ~Overlap(bs[i], bs[j])

C11_WitnessSmaller ==
    /\ last.op = "stepRK4"
    /\ Len(earlier) = 2
    /\ earlier[1] > earlier[2]
    /\ Len(last.pre) >= 2
    /\ NoOverlap(last.advanced)

(***************************************************************************)
(* C12: after any sequence of Body::updateRotation calls, whatever the    *)
(* sign and magnitude of rotationSpeed and dt and whatever the starting   *)
(* angle, rotationAngle is at least 0 and less than 360.                  *)
(***************************************************************************)
C12_AngleInRange ==
    last.op = "updateRotation" =>
        \A i \in 1..Len(bodies) :
            /\ RLe(Zero, bodies[i].rotationAngle)
            /\ RLt(bodies[i].rotationAngle, R(360))

(* the closed range, which the rounded sum stays in *)
C12_AngleAtMost360 ==
    last.op = "updateRotation" =>
        \A i \in 1..Len(bodies) :
            /\ RLe(Zero, bodies[i].rotationAngle)
            /\ RLe(bodies[i].rotationAngle, R(360))

(***************************************************************************)
(* C13: calculateElements reports every orbit it cannot describe through  *)
(* the flag alone.  isValid is false whenever the length of the position  *)
(* or of the velocity is below 1e-10, the angular momentum is below       *)
(* 1e-10, the eccentricity is 1 or more, or the semi-major axis is zero   *)
(* or negative; so a result with isValid true has 0 <= e < 1 and a > 0.   *)
(***************************************************************************)
MomentumOf(c) == length(cross(c.pos, c.vel))
EccentricityOf(c) ==
    length(VSub(VDivS(cross(c.vel, cross(c.pos, c.vel)), c.mu),
                VDivS(c.pos, length(c.pos))))
EnergyOf(c) ==
    RSub(RMul(Half, RMul(length(c.vel), length(c.vel))),
         RDiv(c.mu, length(c.pos)))
AxisNotPositive(c) ==
    \/ EnergyOf(c) = Zero
    \/ RLe(RDiv(RNeg(c.mu), RMul(R(2), EnergyOf(c))), Zero)
InvalidOrbit(c) ==
    \/ Below1e10(length(c.pos))
    \/ Below1e10(length(c.vel))
    \/ Below1e10(MomentumOf(c))
    \/ RLe(One, EccentricityOf(c))
    \/ AxisNotPositive(c)

C13_InvalidThroughFlag ==
    last.op = "calculateElements" =>
        /\ InvalidOrbit(last) => ~last.elements.isValid
        /\ last.elements.isValid =>
              /\ RLe(Zero, last.elements.eccentricity)
              /\ RLt(last.elements.eccentricity, One)
              /\ RLt(Zero, last.elements.semiMajorAxis)

(* a bound orbit is described, and a hyperbolic one is refused *)
C13_Witness ==
    /\ last.op = "calculateElements"
    /\ last.elements.isValid
    /\ RLt(Zero, last.elements.eccentricity)
C13_WitnessHyperbolic ==
    /\ last.op = "calculateElements"
    /\ ~last.elements.isValid
    /\ ~Below1e10(length(last.pos))
    /\ ~Below1e10(length(last.vel))
    /\ ~Below1e10(MomentumOf(last))
    /\ RLt(One, EccentricityOf(last))

(***************************************************************************)
(* C14: generateOrbitPath(orbit, n) returns no point when the orbit is    *)
(* not valid, whatever its other fields hold, or when its eccentricity is *)
(* 1 or more; otherwise it returns exactly n + 1 points, in the order of *)
(* increasing true anomaly from 0 to 2 pi: point j (from 0) lies at the   *)
(* distance a (1 - e^2) / (1 + e cos(2 pi j / n)) from the focus, and the *)
(* last point closes the path on the first.                                *)
(***************************************************************************)
RadiusAt(orbit, nu) ==
    RDiv(RMul(orbit.semiMajorAxis,
              RSub(One, RMul(orbit.eccentricity, orbit.eccentricity))),
         RAdd(One, RMul(orbit.eccentricity, Cos(nu))))

(* the length of p, with no square formed when p lies along an axis *)
Distance(p) ==
    IF p.x = Zero /\ p.y = Zero THEN RAbs(p.z)
    ELSE IF p.x = Zero /\ p.z = Zero THEN RAbs(p.y)
    ELSE IF p.y = Zero /\ p.z = Zero THEN RAbs(p.x)
    ELSE length(p)

C14_WitnessInvalid ==
    /\ last.op = "generateOrbitPath"
    /\ ~last.orbit.isValid
    /\ RLt(last.orbit.eccentricity, One)
    /\ RLt(Zero, last.orbit.semiMajorAxis)
    /\ last.points = <<>>

(***************************************************************************)
(* C15: the round trip.  For every elliptical KeplerianElements (a > 0,   *)
(* 0 <= e < 1, any inclination, node and periapsis angles),               *)
(* calculateElements on the position and velocity that                    *)
(* keplerianToCartesian returns is valid and gives back a, e, i, Omega    *)
(* and omega.  The elements given are in degrees and those given back in  *)
(* radians, so the angles are compared in radians.                        *)
(***************************************************************************)
Recovered(el, found) ==
    /\ found.isValid
    /\ found.semiMajorAxis = el.a
    /\ found.eccentricity = el.e
    /\ found.inclination = RMul(el.i, DEG_TO_RAD)
    /\ found.longitudeAscNode = RMul(el.Omega, DEG_TO_RAD)
    /\ found.argPeriapsis = RMul(el.omega, DEG_TO_RAD)

RoundTripMade == last.op = "calculateElements" /\ last.roundTrip

Between(lo, x, hi) == RLe(lo, x) /\ RLe(x, hi)
Determined(el) ==
    /\ Between(<<1, 100>>, el.a, R(1000))
    /\ Between(<<1, 1000>>, el.e, <<99, 100>>)
    /\ Between(<<1, 10>>, el.i, <<1799, 10>>)
    /\ Between(<<1, 10>>, el.Omega, <<3599, 10>>)
    /\ Between(<<1, 10>>, el.omega, <<3599, 10>>)

C16_BoundedHistory ==
    /\ Len(history) <= maxSnapshots
    /\ (last.op = "record" /\ ~TooSoon(last.pre, last.time)
            /\ Len(last.pre) + 1 > maxSnapshots) =>
          history = Tail(Append(last.pre, last.snapshot))

(* a record into a full history of two snapshots *)
C16_Witness ==
    /\ last.op = "record"
    /\ ~TooSoon(last.pre, last.time)
    /\ Len(last.pre) = 2
    /\ maxSnapshots = 2
    /\ history[1] = last.pre[2]

(***************************************************************************)
(* C17: in a tree under construction every internal node's centerOfMass   *)
(* is the mass-weighted mean position of the bodies of its subtree, and   *)
(* every one-body leaf's centerOfMass is the position of its body.        *)
(***************************************************************************)
RECURSIVE MomentOf(_, _)
MomentOf(bs, slots) ==
    IF slots = {} THEN VZero
    ELSE LET k == CHOOSE x \in slots : TRUE
         IN  VAdd(VScale(bs[k].position, bs[k].mass), MomentOf(bs, slots \ {k}))

WeightedMean(bs, slots) == VDivS(MomentOf(bs, slots), MassOf(bs, slots))

CenterIsMean(P, n, bs) ==
    IF At(P, n).isLeaf
    THEN At(P, n).numBodies > 0 => At(P, n).centerOfMass = bs[At(P, n).bodies].position
    ELSE At(P, n).centerOfMass = WeightedMean(bs, SubtreeBodies(P, n))

C17_CenterOfMassIsMean ==
    rootIdx # -1 =>
        \A n \in 0..(pool.nextFree - 1) : CenterIsMean(pool, n, bodies)

(* the leaves alone *)
C17_LeafCenters ==
    rootIdx # -1 =>
        \A n \in 0..(pool.nextFree - 1) :
            At(pool, n).isLeaf => CenterIsMean(pool, n, bodies)

(***************************************************************************)
(* C18: on a tree built from the positions the forces are evaluated at,   *)
(* with an opening angle from 0 to 0.5, calculateForceIterative ends with *)
(* its stack empty and has visited no node twice; every body other than   *)
(* the query body b is accounted for exactly once, by the term of its     *)
(* leaf or inside exactly one internal node taken as a single mass, and   *)
(* no term includes b: b's leaf adds none and no node taken as a single   *)
(* mass holds b.                                                           *)
(***************************************************************************)
Visited == Range(last.visited)

(* an internal node that was visited and not opened: none of its children *)
(* was pushed                                                               *)
Aggregated(n) ==
    /\ ~At(pool, n).isLeaf
    /\ \A c \in 0..7 : At(pool, n).children[c] \notin Visited

(* the bodies the term of a visited node stands for *)
AccountedBy(n) ==
    IF At(pool, n).isLeaf
    THEN IF At(pool, n).numBodies > 0 /\ At(pool, n).bodies # last.body
         THEN {At(pool, n).bodies} ELSE {}
    ELSE IF Aggregated(n) THEN SubtreeBodies(pool, n) ELSE {}

TermNodes == { n \in Visited : AccountedBy(n) # {} }

TraversalAccounts ==
    /\ Cardinality(Visited) = Len(last.visited)
    /\ Len(last.terms) = Cardinality(TermNodes)
    /\ \A k \in 1..Len(bodies) :
          Cardinality({ n \in Visited : k \in AccountedBy(n) }) =
              IF k = last.body THEN 0 ELSE 1

(* The opening test divides by the distance.  Where the distance is zero *)
(* IEEE 754 division gives an infinite quotient, which is not below       *)
(* theta: the node is opened.  The other outcome shows in the             *)
(* denominators: the division of line 191 follows the test at once.       *)
ZeroQuotientBelowTheta ==
    \E k \in 1..(Len(last.denominators) - 1) :
        /\ last.denominators[k].line = 188
        /\ last.denominators[k].distSq = Zero
        /\ last.denominators[k + 1].line = 191

C18_TraversalAccounts ==
    (last.op = "calculateForceIterative" /\ RLe(last.theta, Half)
        /\ ~ZeroQuotientBelowTheta) => TraversalAccounts

(* with the other outcome of the division by zero included *)
C18_TraversalAccountsAnyQuotient ==
    (last.op = "calculateForceIterative" /\ RLe(last.theta, Half)) =>
        TraversalAccounts

(* a traversal that took an internal node as a single mass *)
C18_Witness ==
    /\ last.op = "calculateForceIterative"
    /\ last.theta = Half
    /\ ~ZeroQuotientBelowTheta
    /\ \E n \in Visited : Aggregated(n) /\ Cardinality(AccountedBy(n)) = 2

(* a traversal that met a node at distance zero and opened it *)
C18_WitnessZeroDistance ==
    /\ last.op = "calculateForceIterative"
    /\ RLe(last.theta, Half)
    /\ ~ZeroQuotientBelowTheta
    /\ \E k \in 1..Len(last.denominators) :
          last.denominators[k].line = 188 /\ last.denominators[k].distSq = Zero
    /\ Len(last.terms) = Len(bodies) - 1

(***************************************************************************)
(* C19: octant selection and child regions agree.  The child of octant    *)
(* idx is the cube of half the size at the corner its bits name (bit 0 X, *)
(* bit 1 Y, bit 2 Z), and a body goes to the octant whose bit is set      *)
(* exactly where its coordinate is at or above the midpoint; so while the *)
(* tree is built every body lies inside the cube of every node over it,   *)
(* the root cube of stepBarnesHut holding all bodies.                     *)
(***************************************************************************)
Bit(idx, b) == (idx \div (2 ^ b)) % 2

InCube(node, p) ==
    /\ Between(node.minBounds.x, p.x, RAdd(node.minBounds.x, node.size))
    /\ Between(node.minBounds.y, p.y, RAdd(node.minBounds.y, node.size))
    /\ Between(node.minBounds.z, p.z, RAdd(node.minBounds.z, node.size))

Midpoint(node) ==
    VAdd(node.minBounds, VScale(Vector3(One, One, One), RMul(node.size, Half)))

(* the child at octant idx of node is the half-size cube at that corner *)
ChildAtCorner(node, idx, child) ==
    /\ child.size = RMul(node.size, Half)
    /\ child.minBounds =
          VAdd(node.minBounds,
               Vector3(RMul(R(Bit(idx, 0)), child.size),
                       RMul(R(Bit(idx, 1)), child.size),
                       RMul(R(Bit(idx, 2)), child.size)))

(* the bits of idx say on which side of the midpoint p is *)
OctantOf(node, idx, p) ==
    /\ Bit(idx, 0) = 1 <=> RLe(Midpoint(node).x, p.x)
    /\ Bit(idx, 1) = 1 <=> RLe(Midpoint(node).y, p.y)
    /\ Bit(idx, 2) = 1 <=> RLe(Midpoint(node).z, p.z)

C19_RegionsAgree ==
    rootIdx # -1 =>
        /\ \A k \in 1..Len(bodies) : InCube(At(pool, rootIdx), bodies[k].position)
        /\ \A n \in 0..(pool.nextFree - 1) :
              /\ \A k \in SubtreeBodies(pool, n) :
                    InCube(At(pool, n), bodies[k].position)
              /\ \A idx \in 0..7 :
                    At(pool, n).children[idx] # -1 =>
                        /\ ChildAtCorner(At(pool, n), idx,
                                         At(pool, At(pool, n).children[idx]))
                        /\ \A k \in SubtreeBodies(pool, At(pool, n).children[idx]) :
                              OctantOf(At(pool, n), idx, bodies[k].position)

(* a finished tree of three levels with a body in the octant of all bits *)
C19_Witness ==
    /\ rootIdx # -1
    /\ inserted = Len(bodies)
    /\ At(pool, rootIdx).children[7] # -1
    /\ \E n \in 1..(pool.nextFree - 1) :
          ~At(pool, n).isLeaf /\ Cardinality(SubtreeBodies(pool, n)) = 2

(***************************************************************************)
(* C20: pool reuse is transparent.  The tree built after clear() in a     *)
(* pool that held another tree, larger or smaller, is node for node the   *)
(* tree built from the same bodies in a newly constructed pool: regions,  *)
(* child links, masses, centers of mass and leaf bodies; nothing of the   *)
(* earlier build is visible.  The pool only grows, by doubling, and never *)
(* shrinks.                                                                *)
(***************************************************************************)
SameTree(P, Q) ==
    /\ P.nextFree = Q.nextFree
    /\ \A n \in 0..(P.nextFree - 1) : At(P, n) = At(Q, n)

(* every child link of the tree leads to a node allocated in this build *)
LinksWithin(P) ==
    \A n \in 0..(P.nextFree - 1) :
        \A i \in 0..7 :
            At(P, n).children[i] # -1 =>
                /\ At(P, n).children[i] > n
                /\ At(P, n).children[i] < P.nextFree

RECURSIVE Doubled(_, _)
Doubled(from, to) ==
    IF to = from THEN TRUE
    ELSE IF to < from \/ to % 2 = 1 THEN FALSE
    ELSE Doubled(from, to \div 2)

C20_ReuseTransparent ==
    last.op = "buildTree" =>
        /\ SameTree(pool, BuildTree(OctreePool, bodies).pool)
        /\ rootIdx = BuildTree(OctreePool, bodies).rootIdx
        /\ LinksWithin(pool)
        /\ Doubled(last.before.size, pool.size)
        /\ pool.nextFree <= pool.size

(* a smaller tree built where a larger one was, in a pool that has grown *)
C20_Witness ==
    /\ last.op = "buildTree"
    /\ last.before.nextFree > pool.nextFree
    /\ pool.nextFree >= 3
    /\ last.before.size > 2
    /\ last.before.size < InitialCapacity
(* a build that makes the pool grow *)
C20_WitnessGrowth ==
    /\ last.op = "buildTree"
    /\ last.before.nextFree > 0
    /\ pool.size > last.before.size

(***************************************************************************)
(* C21: the merge of handleCollisions is in place.  When the bodies at    *)
(* i < j overlap, the merged body is stored at i (its name name_i "-"     *)
(* name_j, its position the mass-weighted mean, its radius the cube root  *)
(* of r_i^3 + r_j^3), the body at j is removed, the other bodies keep     *)
(* their order, and the body that moves into j is compared with the       *)
(* merged body at i next, in the same pass.                               *)
(***************************************************************************)
(* r is the cube root of x to the spacing of the model's roots *)
IsCubeRoot(r, x) ==
    /\ RLe(Pow3(r), x)
    /\ RLt(x, Pow3(RAdd(r, Grid)))

MergedInPlace(e, next) ==
    /\ Len(e.then) = Len(e.bodies) - 1
    /\ e.then[e.i].name = e.bodies[e.i].name \o <<"-">> \o e.bodies[e.j].name
    /\ VScale(e.then[e.i].position, RAdd(e.bodies[e.i].mass, e.bodies[e.j].mass))
          = VAdd(VScale(e.bodies[e.i].position, e.bodies[e.i].mass),
                 VScale(e.bodies[e.j].position, e.bodies[e.j].mass))
    /\ IsCubeRoot(e.then[e.i].radius,
                  RAdd(Pow3(e.bodies[e.i].radius), Pow3(e.bodies[e.j].radius)))
    /\ \A k \in 1..(e.j - 1) : k # e.i => e.then[k] = e.bodies[k]
    /\ \A k \in e.j..Len(e.then) : e.then[k] = e.bodies[k + 1]
    /\ e.j <= Len(e.then) =>
          /\ next # <<>>
          /\ Head(next).i = e.i
          /\ Head(next).j = e.j
          /\ Head(next).bodies = e.then

TraceInPlace(t, pre, post) ==
    /\ post = IF t = <<>> THEN pre ELSE t[Len(t)].then
    /\ \A n \in 1..Len(t) :
          t[n].overlap => MergedInPlace(t[n], SubSeq(t, n + 1, Len(t)))

C21_MergeInPlace ==
    last.op = "handleCollisions" =>
        TraceInPlace(CollideTrace(last.pre, 1, 2), last.pre, bodies)

(* a merge after which the body that moved into j, which the body at i    *)
(* did not reach before, is merged with the merged body                   *)
ShiftedBodyMerged(t) ==
    \E n \in 1..(Len(t) - 1) :
        /\ t[n].overlap
        /\ t[n + 1].overlap
        /\ t[n + 1].i = t[n].i
        /\ ~Overlap(t[n].bodies[t[n].i], t[n].bodies[t[n].j + 1])

C21_Witness ==
    /\ last.op = "handleCollisions"
    /\ ShiftedBodyMerged(CollideTrace(last.pre, 1, 2))

(***************************************************************************)
(* C22: a step of stepVerlet in which nothing collides is the velocity-   *)
(* Verlet update: r(t+dt) = r + v dt + a dt^2 / 2 and                     *)
(* v(t+dt) = v + (a + a(t+dt)) dt / 2, a being the acceleration the body  *)
(* holds on entry and a(t+dt) what calculateAccelerations gives at the    *)
(* new positions.                                                          *)
(***************************************************************************)
VerletPosition(b, dt) ==
    VAdd(b.position,
         VAdd(VScale(b.velocity, dt),
              VScale(b.acceleration, RMul(Half, RMul(dt, dt)))))

VerletVelocity(b, next, dt) ==
    VAdd(b.velocity, VScale(VAdd(b.acceleration, next), RMul(Half, dt)))

VelocityVerlet(pre, post, dt) ==
    /\ Len(post) = Len(pre)
    /\ \A i \in 1..Len(post) :
          /\ post[i].position = VerletPosition(pre[i], dt)
          /\ post[i].acceleration = calculateAccelerations(post)[i].acceleration
          /\ post[i].velocity = VerletVelocity(pre[i], post[i].acceleration, dt)

C22_VelocityVerlet ==
    (last.op = "stepVerlet" /\ last.merges = 0) =>
        VelocityVerlet(last.pre, bodies, last.dt)

(* a step without a merge of bodies that attract each other, entered      *)
(* with accelerations and velocities that are not zero                    *)
C22_Witness ==
    /\ last.op = "stepVerlet"
    /\ last.merges = 0
    /\ Len(bodies) >= 2
    /\ \E i \in 1..Len(bodies) :
          /\ last.pre[i].acceleration # VZero
          /\ last.pre[i].velocity # VZero
          /\ bodies[i].acceleration # VZero
          /\ bodies[i].acceleration # last.pre[i].acceleration

(***************************************************************************)
(* C23: getStateAt on a history that is not empty and whose snapshots all *)
(* hold as many bodies as the caller's collection returns true and gives  *)
(* every body the first snapshot's position, velocity and rotation angle  *)
(* for a time at or before the first snapshot, the last snapshot's for a  *)
(* time after the last, and otherwise the linear interpolation between    *)
(* the two consecutive snapshots around the time, which at a snapshot's   *)
(* time is that snapshot's state; mass, radius, name and acceleration     *)
(* stay as they are.                                                       *)
(***************************************************************************)
SameCounts(h, n) == \A k \in 1..Len(h) : Len(h[k].bodyStates) = n

(* a + (b - a) * (time - t1) / (t2 - t1) *)
Along(a, b, t1, t2, time) ==
    RAdd(a, RDiv(RMul(RSub(b, a), RSub(time, t1)), RSub(t2, t1)))
VAlong(a, b, t1, t2, time) ==
    Vector3(Along(a.x, b.x, t1, t2, time), Along(a.y, b.y, t1, t2, time),
            Along(a.z, b.z, t1, t2, time))
Between2(s1, s2, i, time) ==
    [position |-> VAlong(s1.bodyStates[i].position, s2.bodyStates[i].position,
                         s1.time, s2.time, time),
     velocity |-> VAlong(s1.bodyStates[i].velocity, s2.bodyStates[i].velocity,
                         s1.time, s2.time, time),
     rotationAngle |-> Along(s1.bodyStates[i].rotationAngle,
                             s2.bodyStates[i].rotationAngle,
                             s1.time, s2.time, time)]

Bracket(h, time) ==
    CHOOSE k \in 1..(Len(h) - 1) : RLt(h[k].time, time) /\ RLe(time, h[k + 1].time)

ExpectedState(h, time, i) ==
    IF RLe(time, h[1].time) THEN h[1].bodyStates[i]
    ELSE IF RLt(h[Len(h)].time, time) THEN h[Len(h)].bodyStates[i]
    ELSE Between2(h[Bracket(h, time)], h[Bracket(h, time) + 1], i, time)

Scrubbed(h, time, pre, post) ==
    /\ Len(post) = Len(pre)
    /\ \A i \in 1..Len(post) :
          /\ BodyState(post[i]) = ExpectedState(h, time, i)
          /\ \A k \in 1..Len(h) :
                h[k].time = time => BodyState(post[i]) = h[k].bodyStates[i]
          /\ post[i] = [pre[i] EXCEPT !.position = post[i].position,
                                      !.velocity = post[i].velocity,
                                      !.rotationAngle = post[i].rotationAngle]

C23_StateAt ==
    (/\ last.op = "getStateAt"
     /\ history # <<>>
     /\ SameCounts(history, Len(last.pre))) =>
        /\ last.found
        /\ Scrubbed(history, last.time, last.pre, bodies)

(* a time strictly inside the span of two snapshots that differ, nearer   *)
(* to one of them                                                          *)
C23_Witness ==
    /\ last.op = "getStateAt"
    /\ Len(history) >= 2
    /\ SameCounts(history, Len(last.pre))
    /\ Len(bodies) = 2
    /\ RLt(history[1].time, last.time)
    /\ RLt(last.time, history[Len(history)].time)
    /\ bodies[1].position # history[1].bodyStates[1].position
    /\ bodies[1].position # history[Len(history)].bodyStates[1].position
    /\ RSub(last.time, history[1].time) # RSub(history[Len(history)].time, last.time)
(* a time that is the time of a snapshot after the first *)
C23_WitnessAtSnapshot ==
    /\ last.op = "getStateAt"
    /\ Len(history) >= 2
    /\ SameCounts(history, Len(last.pre))
    /\ history[2].time = last.time
    /\ history[2].bodyStates # history[1].bodyStates
    /\ last.pre # bodies

(***************************************************************************)
(* C24: when handleCollisions merges and erases bodies between the tree   *)
(* build and the force evaluation of stepBarnesHut, every body pointer    *)
(* held in a leaf still designates, at the force evaluation, a body of    *)
(* the collection, and the body that was inserted: no leaf refers to an   *)
(* erased slot, to a slot past the end or to another body moved into the  *)
(* slot.                                                                   *)
(***************************************************************************)
LeafSlots(P) ==
    { At(P, n).bodies : n \in { k \in 0..(P.nextFree - 1) :
                                   At(P, k).isLeaf /\ At(P, k).numBodies > 0 } }

DesignatesInserted(slot, inserted_, live) ==
    /\ slot <= Len(live)
    /\ live[slot].name = inserted_[slot].name

C24_LeafBodiesLive ==
    (last.op = "stepBarnesHut" /\ last.returned /\ last.merges > 0) =>
        \A slot \in LeafSlots(pool) : DesignatesInserted(slot, last.pre, bodies)

(* the same of a step in which nothing merged *)
C24_LeafBodiesLiveUnmerged ==
    (last.op = "stepBarnesHut" /\ last.returned /\ last.merges = 0) =>
        /\ LeafSlots(pool) = 1..Len(bodies)
        /\ \A slot \in LeafSlots(pool) : DesignatesInserted(slot, last.pre, bodies)

(***************************************************************************)
(* C25: when handleCollisions returns no two bodies of the collection     *)
(* overlap: for every pair the squared distance of the positions is at    *)
(* least the square of the sum of the radii, also where the overlap came  *)
(* about through a merge earlier in the same call.                         *)
(***************************************************************************)
C25_NoOverlapLeft ==
    last.op = "handleCollisions" => NoOverlap(bodies)

(***************************************************************************)
(* C26: building the octree terminates for every finite collection: the   *)
(* insert / insertIntoChild recursion started by stepBarnesHut allocates  *)
(* finitely many nodes and returns for any positions, two bodies at one   *)
(* position included.                                                      *)
(***************************************************************************)
C26_BuildReturns ==
    last.op = "stepBarnesHut" =>
        /\ last.returned
        /\ ~pool.diverged

(* the same of the collections whose positions are pairwise distinct *)
DistinctPositions(bs) ==
    \A i, j \in 1..Len(bs) : i # j => bs[i].position # bs[j].position

C26_BuildReturnsDistinct ==
    (last.op = "stepBarnesHut" /\ DistinctPositions(last.pre)) =>
        /\ last.returned
        /\ ~pool.diverged

(***************************************************************************)
(* C27: after any sequence of record, truncateAfter and clear calls, with *)
(* any times, times before the latest snapshot included, the times of the *)
(* stored snapshots increase strictly from front to back and consecutive  *)
(* times are at least 0.001 apart, which the binary search of getStateAt  *)
(* relies on.                                                              *)
(***************************************************************************)
Spaced(h) ==
    \A k \in 1..(Len(h) - 1) :
        /\ RLt(h[k].time, h[k + 1].time)
        /\ RLe(<<1, 1000>>, RSub(h[k + 1].time, h[k].time))

C27_TimesIncreasing == Spaced(history)

(* a record with a time before the latest snapshot, after a truncation,   *)
(* on a history with snapshots exactly 0.001 apart                        *)
C27_Witness ==
    /\ last.op = "record"
    /\ Len(last.pre) >= 2
    /\ RLt(last.time, last.pre[Len(last.pre)].time)
    /\ RSub(history[2].time, history[1].time) = <<1, 1000>>

(***************************************************************************)
(* C28: for any sequence of record calls made with collections of varying *)
(* body counts, getStateAt never reads a snapshot's bodyStates at an      *)
(* index beyond that snapshot's length: it returns false and leaves the   *)
(* bodies unchanged when the history is empty or when the caller's body   *)
(* count differs from the body count of any snapshot it would read.       *)
(***************************************************************************)
WouldRead(h, time) == SnapshotsRead(h, LowerBound(h, time, 1))

ReadsWithin(h, read, n) ==
    \A k \in read : n <= Len(h[k].bodyStates)

CountDiffers(h, time, n) ==
    \/ h = <<>>
    \/ \E k \in WouldRead(h, time) : Len(h[k].bodyStates) # n

C28_ReadsWithinSnapshots ==
    last.op = "getStateAt" =>
        /\ ReadsWithin(history, last.read, Len(last.pre))
        /\ CountDiffers(history, last.time, Len(last.pre)) =>
              (~last.found /\ bodies = last.pre)

(* the same when the counts recorded never rise and the caller's          *)
(* collection is the one recorded last                                     *)
NeverRising(h) ==
    \A k \in 1..(Len(h) - 1) :
        Len(h[k].bodyStates) >= Len(h[k + 1].bodyStates)

C28_ReadsWithinFallingCounts ==
    (/\ last.op = "getStateAt"
     /\ NeverRising(history)
     /\ history # <<>> => Len(last.pre) <= Len(history[Len(history)].bodyStates)) =>
        /\ ReadsWithin(history, last.read, Len(last.pre))
        /\ CountDiffers(history, last.time, Len(last.pre)) =>
              (~last.found /\ bodies = last.pre)

(***************************************************************************)
(* C29: in every unpaused frame with timeRate > 0 the sub-stepping loop   *)
(* of main terminates, every sub-step handed to the selected integrator   *)
(* is strictly positive and no larger than getAdaptiveTimestep(system,    *)
(* baseDt), and the sub-steps sum to exactly frameTime = baseDt *         *)
(* timeRate, also when merges reduce the body count during the loop.      *)
(***************************************************************************)
PhysicsFrameDone == last.op = "frame" /\ last.mode = "physics"

RECURSIVE SumOfSubSteps(_)
SumOfSubSteps(adts) ==
    IF adts = <<>> THEN Zero
    ELSE RAdd(adts[1].adt, SumOfSubSteps(Tail(adts)))

SubStepsBounded(adts) ==
    \A i \in 1..Len(adts) :
        RLt(Zero, adts[i].adt) /\ RLe(adts[i].adt, adts[i].limit)

(* C29 as stated: every physics frame ends its loop, with sub-steps that  *)
(* are positive, within the adaptive limit and sum to frameTime            *)
C29_SubStepsCoverFrame ==
    PhysicsFrameDone =>
        /\ last.returned
        /\ SubStepsBounded(last.adts)
        /\ SumOfSubSteps(last.adts) = last.frameTime

(* the frames whose every integrator call returned: their sub-steps are   *)
(* positive, within the adaptive limit and sum to frameTime                *)
C29_SubStepsCoverFrameReturned ==
    (PhysicsFrameDone /\ last.returned) =>
        /\ SubStepsBounded(last.adts)
        /\ SumOfSubSteps(last.adts) = last.frameTime

(* a frame of several sub-steps in which a merge reduced the body count *)
C29_MergeInLoop ==
    /\ PhysicsFrameDone /\ last.returned
    /\ Len(last.adts) >= 2
    /\ \E i \in 1..Len(last.adts) : last.adts[i].after < last.adts[i].before

(* a frame of several sub-steps on two bodies, the limit below baseDt *)
C29_AdaptiveLoop ==
    /\ PhysicsFrameDone /\ last.returned
    /\ Len(last.adts) >= 2
    /\ \A i \in 1..Len(last.adts) :
          last.adts[i].after = 2 /\ RLt(last.adts[i].limit, baseDt)

(* the frame whose Barnes-Hut step did not return *)
C29_LoopStuck == PhysicsFrameDone /\ ~last.returned

(***************************************************************************)
(* C30: the timeline stays consistent across time travel in the frame     *)
(* loop: when physics resumes from a scrubbed state, elapsedYears equals  *)
(* the scrub time and no snapshot later than that time remains in the     *)
(* history.                                                                *)
(***************************************************************************)
(* the physics frame that follows a frame of time travel whose getStateAt *)
(* found the state of a time not after elapsedYears                        *)
Resumed ==
    /\ PhysicsFrameDone /\ last.was
    /\ last.preHistory # <<>>
    /\ Len(last.pre) = Len(last.preHistory[1].bodyStates)
    /\ RLe(last.scrubTime, last.resumedAt)

NoneLater(h, time) == \A i \in 1..Len(h) : RLe(h[i].time, time)

(* C30 as stated: physics resumes at the scrub time, with no snapshot     *)
(* later than it                                                           *)
C30_ResumesAtScrubTime ==
    Resumed =>
        /\ last.resumedAt = last.scrubTime
        /\ NoneLater(last.preHistory, last.scrubTime)

(* physics resumed where time travel was switched on, nothing scrubbed *)
C30_ResumedUnscrubbed == Resumed /\ last.resumedAt = last.scrubTime

(* physics resumed after a scrub to a time before the last snapshot *)
C30_ResumedEarlier ==
    /\ Resumed
    /\ RLt(last.scrubTime, last.preHistory[Len(last.preHistory)].time)

====
